---- MODULE Spec2Model ----
(***************************************************************************)
(* Cold-start predictor of backend/server.py: ColdStartPredictor, the      *)
(* global predictor and the routes that drive it.                          *)
(*                                                                         *)
(* Representation of the numbers of the code:                              *)
(*  - a record timestamp is a whole number of seconds since an epoch;      *)
(*  - current_time is a whole number of milliseconds since that epoch;     *)
(*  - a float that holds a quotient (np.mean, the variability, a time      *)
(*    difference) is an exact rational [num, den] in lowest terms;         *)
(*  - np.std is held by its square, [sqrt_of |-> rational], counted in the  *)
(*    common unit of the numbers it is taken of;                           *)
(*  - a confidence is held in tenths (0.9 is 9).                           *)
(* The timestamps enumerated below make the mean gap of every cron group   *)
(* a whole number of microseconds, so timedelta(seconds=avg_interval)      *)
(* loses nothing.                                                          *)
(* The store is what the database holds when the server starts; requests   *)
(* read the clock at the enumerated instants, in order.                    *)
(*                                                                         *)
(* Specifications, by what the store and the callers are drawn from:       *)
(*   Spec            groups with near-regular spacing                      *)
(*   SpecBurst       groups spread over several burst windows              *)
(*   SpecIrregular   groups of up to 6 records with scattered gaps         *)
(*   SpecJobs        several jobs in one store                             *)
(*   SpecCalls       direct calls of analyze_job_history and               *)
(*                   predict_next_jobs, one after the other                *)
(*   SpecConcurrent  callers whose calls interleave at every step          *)
(*   SpecLimit       stores around the limit of the query                  *)
(*   SpecService     the routes, with storage failures and a document the  *)
(*                   JobExecution constructor rejects                      *)
(*   SpecConnectors  the routes that read connector_generator.mock_apis    *)
(*   SpecDashboard   the dashboard over stores with records older than a   *)
(*                   day                                                   *)
(*   SpecMock        generate-mock-data and predictions requests whose     *)
(*                   steps interleave at every await                       *)
(*   SpecExample     the worked example of a job every 900 s               *)
(*   SpecAdvance     calls that go on until records leave the window       *)
(*   SpecOrder       analyze_job_history on every order of a collection    *)
(***************************************************************************)
EXTENDS Integers, Sequences, FiniteSets, TLC

VARIABLES db_job_executions, job_patterns, cron_patterns, burst_detection,
          current_time, job_executions, analysis, predictions,
          last_call, previous_call, callers, request, response

vars == <<db_job_executions, job_patterns, cron_patterns, burst_detection,
          current_time, job_executions, analysis, predictions,
          last_call, previous_call, callers, request, response>>

(* ------------------------- program constants --------------------------- *)

NoTime == -1

ToListLimit == 1000

SevenDaysMs == 604800000

WindowSizeSeconds == 600

HorizonSeconds == 300

OneDayMs == 86400000

(* ---------------------------- bounds ----------------------------------- *)

MaxRecords == 5

JobIds == {"job_a", "job_b"}

(* a stored JobExecution: the fields the predictor reads *)
JobExecution(job_id, timestamp, status) ==
  [job_id |-> job_id, timestamp |-> timestamp, status |-> status,
   job_type |-> "cron"]

Timestamps == {0, 300, 600, 870, 1200}

Records ==
  {JobExecution("job_a", t, "success") : t \in Timestamps}
    \cup {JobExecution("job_b", 0, "success")}

RefTimes == {1499999, 1500000, 1500001}

StoreContents == UNION {[1..n -> Records] : n \in 0..MaxRecords}

(* groups spread over more than two burst windows *)
BurstTimestamps == {0, 600, 1300, 2100}

BurstRecords ==
  {JobExecution("job_a", t, "success") : t \in BurstTimestamps}
    \cup {JobExecution("job_b", 0, "success")}

BurstStoreContents == UNION {[1..n -> BurstRecords] : n \in 0..MaxRecords}

(* 25 minutes, 3 days and 7 days after the epoch *)
BurstRefTimes == {1500000, 259200000, 604800000}

(* groups of up to 6 records with widely scattered gaps *)
IrregularMaxRecords == 6

IrregularTimestamps == {0, 700, 1400, 3500}

IrregularRecords == {JobExecution("job_a", t, "success") : t \in IrregularTimestamps}

IrregularStoreContents ==
  UNION {[1..n -> IrregularRecords] : n \in 0..IrregularMaxRecords}

(* several jobs in one store: each job has one of the profiles, and the    *)
(* records of the jobs lie job after job or in turns                       *)
MaxJobs == 3

JobNames == <<"job_a", "job_b", "job_c", "job_d">>

Profiles == {<<>>, <<0>>, <<1200, 0, 600>>, <<0, 0, 0, 0, 0>>, <<0, 0, 1200>>}

Block(job_id, profile) ==
  [i \in 1..Len(profile) |-> JobExecution(job_id, profile[i], "success")]

RECURSIVE Blocks(_, _)
Blocks(order, profile) ==
  IF order = <<>> THEN <<>>
  ELSE Block(JobNames[Head(order)], profile[Head(order)])
         \o Blocks(Tail(order), profile)

(* the k-th record of every job that has one, in the order of the jobs *)
RECURSIVE Turn(_, _, _)
Turn(order, profile, k) ==
  IF order = <<>> THEN <<>>
  ELSE (IF k <= Len(profile[Head(order)])
        THEN <<JobExecution(JobNames[Head(order)], profile[Head(order)][k], "success")>>
        ELSE <<>>)
         \o Turn(Tail(order), profile, k)

RECURSIVE Turns(_, _, _)
Turns(order, profile, k) ==
  IF \A i \in 1..Len(order) : Len(profile[order[i]]) < k THEN <<>>
  ELSE Turn(order, profile, k) \o Turns(order, profile, k + 1)

JobStoreContents ==
  {Blocks(order, profile) :
     order \in Permutations(1..MaxJobs), profile \in [1..MaxJobs -> Profiles]}
    \cup {Turns(order, profile, 1) :
             order \in Permutations(1..MaxJobs), profile \in [1..MaxJobs -> Profiles]}

JobRefTimes == {1499999, 1500000}

(* direct calls of the predictor: collections of up to MaxCallRecords      *)
(* records handed to analyze_job_history, and a store of one of four       *)
(* contents; the later reference time is more than 7 days after the store  *)
MaxCallRecords == 2

CallRecords ==
  {JobExecution("job_a", 0, "success"),
   JobExecution("job_a", 600, "failed"),
   JobExecution("job_b", 0, "success")}

CallInputs == UNION {[1..n -> CallRecords] : n \in 0..MaxCallRecords}

CallStoreContents ==
  {<<>>,
   Block("job_a", <<0>>),
   Block("job_a", <<0, 600, 1200>>),
   Block("job_b", <<0, 0, 0, 0, 0>>) \o Block("job_a", <<1200, 0, 600>>)}

CallRefTimes == {1500000, 606000001}

(* concurrent callers of the predictor *)
MaxCallers == 2

ConcurrentInputs ==
  {<<>>,
   Block("job_a", <<0>>),
   Block("job_b", <<0, 0, 0, 0, 0>>) \o Block("job_a", <<0, 600>>)}

(* stores around the limit of the query: one record of each of n jobs; and *)
(* stores of up to MaxLimitRecords records around the start of the window  *)
(* of the later reference time                                             *)
MaxLimitRecords == 3

OneRecordEach(n) ==
  [i \in 1..n |-> JobExecution("job_" \o ToString(i), 600, "success")]

LimitRecords == {JobExecution("job_a", t, "success") : t \in {499, 500, 501}}

LimitStoreContents ==
  UNION {[1..n -> LimitRecords] : n \in 0..MaxLimitRecords}
    \cup {OneRecordEach(n) : n \in {ToListLimit - 1, ToListLimit, ToListLimit + 1}}

(* 25 minutes after the epoch, and 7 days after the record of second 500 *)
LimitRefTimes == {1500000, 605300000}

(* the service layer: stores that may hold a document the JobExecution constructor  *)
(* rejects, and reference times 25 minutes, 1 day + 10 minutes and more    *)
(* than 7 days after the epoch                                             *)
MalformedDocument == [timestamp |-> 600]

ServiceStoreContents ==
  {<<>>,
   Block("job_a", <<0, 600, 1200>>),
   Block("job_b", <<0, 0, 0, 0, 0>>) \o Block("job_a", <<1200, 0, 600>>),
   Block("job_a", <<0>>) \o <<MalformedDocument>>}

ServiceRefTimes == {1500000, 87000000, 606000001}

(* the names asked of the connector routes: the four of the tests, and    *)
(* names that are no key of mock_apis                                      *)
RequestedNames ==
  {"user_management", "billing", "monitoring", "crm",
   "payments", "CRM", "user management"}

(* the mock data generator, scaled: MockDays days instead of the 7 of the  *)
(* source, bursts of MockBurstSize runs, and of job_configs one            *)
(* configuration of each type, the cron one being the daily job            *)
MockDays == 2

MockBurstSize == 2

DaySeconds == 86400

job_configs ==
  <<[job_id |-> "backup_daily", type |-> "cron", interval_minutes |-> 1440],
    [job_id |-> "user_report", type |-> "on_demand"],
    [job_id |-> "ai_video_process", type |-> "bursty", burst_size |-> MockBurstSize]>>

(* what the calls of random give in one run of the generator: the status   *)
(* drawn for the records, int(random.gauss(..)) for the on-demand jobs of  *)
(* a day, and whether random.random() < 0.7 lets a day have its burst; the *)
(* hours drawn are the least of their ranges, the minutes and seconds 0    *)
MockRandoms ==
  {[status |-> "success", num_jobs |-> 0, burst |-> FALSE],
   [status |-> "failed", num_jobs |-> 1, burst |-> FALSE],
   [status |-> "success", num_jobs |-> -1, burst |-> TRUE]}

(* 10 days and 25 minutes after the epoch, and an hour later *)
MockRefTimes == {865500000, 869100000}

(* the store before a regeneration: one bursty job of the day before the   *)
(* reference times, or the five runs of a burst a day after four daily     *)
(* runs                                                                    *)
MockStoreContents ==
  {Block("job_b", <<800000, 800000, 800000, 800000, 800000>>),
   Block("backup_daily", <<518400, 604800, 691200, 777600>>)
     \o Block("ai_video_process", <<810000, 810000, 810000, 810000, 810000>>)}

(* the dashboard: stores with a bursty job at the epoch and a periodic or  *)
(* bursty job 10 to 20 minutes later, read 25 minutes, 1 day + 10 minutes  *)
(* and more than 7 days after the epoch                                    *)
DashboardStoreContents ==
  {<<>>,
   Block("job_b", <<0, 0, 0, 0, 0>>),
   Block("job_b", <<0, 0, 0, 0, 0>>) \o Block("job_a", <<1200, 0, 600>>),
   Block("job_a", <<0, 600, 1200>>),
   Block("job_b", <<1200, 1200, 1200, 1200, 1200>>)}

DashboardRefTimes == {1500000, 87000000, 606000001}

(* the worked example: a job that runs every 900 s from t0 *)
ExampleTimestamps == {0, 900, 1800, 2700}

ExampleRecords == {JobExecution("job_a", t, "success") : t \in ExampleTimestamps}

ExampleRefTimes == {2000000, 2600000, 2900000, 3500000}

ExampleStoreContents == UNION {[1..n -> ExampleRecords] : n \in 0..MaxRecords}

(* calls whose reference time advances past next_predicted and past the   *)
(* point where the first record leaves the 7-day window: the stores of the *)
(* worked example, and a job with gaps of 1.5, 1.85 and 1.85 days          *)
SlidingStoreContents ==
  {Block("job_a", <<0, 129600, 289440, 449280>>),
   Block("job_a", <<129600, 289440, 449280>>)}

AdvanceStoreContents == ExampleStoreContents \cup SlidingStoreContents

AdvanceRefTimes == ExampleRefTimes \cup {598800000, 600000000, 609000000, 609200000}

(* the orders a collection can be supplied in: the store holds up to       *)
(* MaxOrderRecords of these records and a caller hands them to             *)
(* analyze_job_history in any order; two records of job_a share a          *)
(* timestamp and differ in status                                          *)
MaxOrderRecords == 3

OrderRecords ==
  <<JobExecution("job_a", 0, "success"),
    JobExecution("job_a", 900, "success"),
    JobExecution("job_a", 900, "failed"),
    JobExecution("job_a", 1800, "success"),
    [JobExecution("job_b", 0, "success") EXCEPT !.job_type = "on_demand"],
    [JobExecution("job_b", 10, "failed") EXCEPT !.job_type = "on_demand"]>>

OrderStoreContents ==
  {SelectSeq(OrderRecords, LAMBDA r : r \in chosen) :
     chosen \in {c \in SUBSET {OrderRecords[i] : i \in 1..Len(OrderRecords)} :
                   Cardinality(c) <= MaxOrderRecords}}

(* every order of the elements of s *)
OrdersOf(s) ==
  {[i \in 1..Len(s) |-> s[f[i]]] :
     f \in {g \in [1..Len(s) -> 1..Len(s)] :
              \A i, j \in 1..Len(s) : g[i] = g[j] => i = j}}

(* ------------------------- exact arithmetic ---------------------------- *)

Abs(n) == IF n < 0 THEN -n ELSE n

RECURSIVE GCD(_, _)
GCD(a, b) == IF b = 0 THEN a ELSE GCD(b, a % b)

Rat(n, d) ==
  LET g == GCD(Abs(n), Abs(d))
      s == IF d < 0 THEN -1 ELSE 1
  IN  [num |-> s * (n \div g), den |-> s * (d \div g)]

RatMul(a, b) == Rat(a.num * b.num, a.den * b.den)

RatSub(a, b) == Rat(a.num * b.den - b.num * a.den, a.den * b.den)

RatAdd(a, b) == Rat(a.num * b.den + b.num * a.den, a.den * b.den)

RatDiv(a, b) == Rat(a.num * b.den, a.den * b.num)

RatLess(a, b) == a.num * b.den < b.num * a.den

RatLeq(a, b) == a.num * b.den <= b.num * a.den

RECURSIVE SeqSum(_)
SeqSum(xs) == IF xs = <<>> THEN 0 ELSE Head(xs) + SeqSum(Tail(xs))

np_mean(xs) == Rat(SeqSum(xs), Len(xs))

(* the greatest common divisor of the numbers of xs, and 1 when all are 0 *)
RECURSIVE SeqGCD(_)
SeqGCD(xs) == IF xs = <<>> THEN 0 ELSE GCD(Abs(Head(xs)), SeqGCD(Tail(xs)))

Unit(xs) == IF SeqGCD(xs) = 0 THEN 1 ELSE SeqGCD(xs)

(* np.std(xs) = unit * sqrt(sqrt_of): the deviation of the numbers counted *)
(* in their common unit, which keeps the squares within the integers       *)
np_std(xs) ==
  LET unit == Unit(xs)
      ys == [i \in 1..Len(xs) |-> xs[i] \div unit]
      m == np_mean(ys)
      sq == [i \in 1..Len(ys) |-> (ys[i] * m.den - m.num) * (ys[i] * m.den - m.num)]
  IN  [sqrt_of |-> Rat(SeqSum(sq), m.den * m.den * Len(ys)), unit |-> unit]

(* x counted in the unit of std *)
InUnit(x, std) == RatDiv(x, Rat(std.unit, 1))

(* std < bound, for std >= 0 *)
RootLess(std, bound) ==
  /\ bound.num > 0
  /\ RatLess(std.sqrt_of, RatMul(InUnit(bound, std), InUnit(bound, std)))

(* std / avg, for avg > 0 *)
RootDiv(std, avg) ==
  [sqrt_of |-> RatDiv(std.sqrt_of, RatMul(InUnit(avg, std), InUnit(avg, std)))]

(* ------------------------- ColdStartPredictor -------------------------- *)

(* list.sort(key=lambda x: x.timestamp): stable insertion into a sorted list *)
RECURSIVE InsertByTimestamp(_, _)
InsertByTimestamp(sorted, e) ==
  IF sorted = <<>> THEN <<e>>
  ELSE IF Head(sorted).timestamp <= e.timestamp
       THEN <<Head(sorted)>> \o InsertByTimestamp(Tail(sorted), e)
       ELSE <<e>> \o sorted

RECURSIVE SortByTimestamp(_)
SortByTimestamp(executions) ==
  IF executions = <<>> THEN <<>>
  ELSE InsertByTimestamp(SortByTimestamp(SubSeq(executions, 1, Len(executions) - 1)),
                         executions[Len(executions)])

Intervals(executions) ==
  [i \in 1..(Len(executions) - 1) |->
     executions[i + 1].timestamp - executions[i].timestamp]

(* mutant: the window leaves out its end, t < window_end *)
WindowCount_OpenEnd(executions, exec) ==
  Cardinality({i \in 1..Len(executions) :
                 /\ exec.timestamp <= executions[i].timestamp
                 /\ executions[i].timestamp < exec.timestamp + WindowSizeSeconds})

WindowCount(executions, exec) ==
  Cardinality({i \in 1..Len(executions) :
                 /\ exec.timestamp <= executions[i].timestamp
                 /\ executions[i].timestamp <= exec.timestamp + WindowSizeSeconds})

_detect_burst_pattern(executions) ==
  IF Len(executions) < 5 THEN FALSE
  ELSE \E i \in 1..Len(executions) : WindowCount(executions, executions[i]) >= 3

(* mutant: std <= avg * 0.1 *)
IsCron_NonStrict(executions, avg_interval, std_interval) ==
  LET bound == RatMul(avg_interval, Rat(1, 10))
  IN  /\ bound.num >= 0
      /\ RatLeq(std_interval.sqrt_of,
                RatMul(InUnit(bound, std_interval), InUnit(bound, std_interval)))
      /\ Len(executions) >= 3

(* mutant: len(executions) > 3 *)
IsCron_MoreThan3(executions, avg_interval, std_interval) ==
  /\ RootLess(std_interval, RatMul(avg_interval, Rat(1, 10)))
  /\ Len(executions) > 3

IsCron(executions, avg_interval, std_interval) ==
  /\ RootLess(std_interval, RatMul(avg_interval, Rat(1, 10)))
  /\ Len(executions) >= 3

(* mutant: the fallback for a mean gap of 0 is 0 *)
Variability_ZeroFallback(avg_interval, std_interval) ==
  IF avg_interval.num > 0 THEN RootDiv(std_interval, avg_interval)
  ELSE [sqrt_of |-> Rat(0, 1)]

Variability(avg_interval, std_interval) ==
  IF avg_interval.num > 0 THEN RootDiv(std_interval, avg_interval)
  ELSE [sqrt_of |-> Rat(1, 1)]

InsufficientData == [type |-> "insufficient_data", confidence |-> 1]

(* mutant: the interval is added to the first timestamp, executions[0] *)
NextPredicted_FromFirst(executions, avg_interval) ==
  RatAdd(Rat(executions[1].timestamp, 1), avg_interval)

NextPredicted(executions, avg_interval) ==
  RatAdd(Rat(executions[Len(executions)].timestamp, 1), avg_interval)

(* mutant: the burst test comes before the cron test *)
Classify_BurstFirst(executions, avg_interval, std_interval) ==
  IF _detect_burst_pattern(executions)
  THEN [type |-> "bursty", confidence |-> 7, burst_indicators |-> TRUE]
  ELSE IF IsCron(executions, avg_interval, std_interval)
  THEN [type |-> "cron",
        interval_seconds |-> avg_interval,
        confidence |-> 9,
        next_predicted |-> NextPredicted(executions, avg_interval)]
  ELSE [type |-> "on_demand",
        avg_interval |-> avg_interval,
        confidence |-> 4,
        variability |-> Variability(avg_interval, std_interval)]

(* mutant: the confidences are percentages, 90, 70 and 40 *)
Classify_Percent(executions, avg_interval, std_interval) ==
  IF IsCron(executions, avg_interval, std_interval)
  THEN [type |-> "cron",
        interval_seconds |-> avg_interval,
        confidence |-> 900,
        next_predicted |-> NextPredicted(executions, avg_interval)]
  ELSE IF _detect_burst_pattern(executions)
  THEN [type |-> "bursty", confidence |-> 700, burst_indicators |-> TRUE]
  ELSE [type |-> "on_demand",
        avg_interval |-> avg_interval,
        confidence |-> 400,
        variability |-> Variability(avg_interval, std_interval)]

Classify(executions, avg_interval, std_interval) ==
  IF IsCron(executions, avg_interval, std_interval)
  THEN [type |-> "cron",
        interval_seconds |-> avg_interval,
        confidence |-> 9,
        next_predicted |-> NextPredicted(executions, avg_interval)]
  ELSE IF _detect_burst_pattern(executions)
  THEN [type |-> "bursty", confidence |-> 7, burst_indicators |-> TRUE]
  ELSE [type |-> "on_demand",
        avg_interval |-> avg_interval,
        confidence |-> 4,
        variability |-> Variability(avg_interval, std_interval)]

_analyze_job_pattern(executions) ==
  IF Len(executions) < 2 THEN InsufficientData
  ELSE LET intervals == Intervals(executions) IN
       IF intervals = <<>> THEN InsufficientData
       ELSE Classify(executions, np_mean(intervals), np_std(intervals))

(* mutant: a key for every record *)
JobOrder_EveryRecord(execs) == [i \in 1..Len(execs) |-> execs[i].job_id]

(* keys of jobs_by_id, in the order a dict keeps them: first occurrence *)
JobOrder(execs) ==
  LET first == SelectSeq([i \in 1..Len(execs) |-> i],
                         LAMBDA i : \A k \in 1..(i - 1) :
                                      execs[k].job_id # execs[i].job_id)
  IN  [n \in 1..Len(first) |-> execs[first[n]].job_id]

(* mutant: every job gets the whole list *)
JobsById_Ungrouped(execs, job_id) == execs

JobsById(execs, job_id) == SelectSeq(execs, LAMBDA e : e.job_id = job_id)

(* Counter([job.job_type for job in job_executions]) *)
JobTypes(execs) ==
  [t \in {execs[i].job_type : i \in 1..Len(execs)} |->
     Cardinality({i \in 1..Len(execs) : execs[i].job_type = t})]

(* mutant: the ratio of an empty collection is 1 *)
SuccessRate_EmptyIsOne(execs) ==
  IF execs # <<>>
  THEN Rat(Len(SelectSeq(execs, LAMBDA e : e.status = "success")), Len(execs))
  ELSE Rat(1, 1)

SuccessRate(execs) ==
  IF execs # <<>>
  THEN Rat(Len(SelectSeq(execs, LAMBDA e : e.status = "success")), Len(execs))
  ELSE Rat(0, 1)

analyze_job_history(execs) ==
  LET order == JobOrder(execs) IN
  [total_jobs |-> Len(execs),
   job_types |-> JobTypes(execs),
   success_rate |-> SuccessRate(execs),
   patterns |-> [i \in 1..Len(order) |->
                   [job_id |-> order[i],
                    pattern |-> _analyze_job_pattern(
                                  SortByTimestamp(JobsById(execs, order[i])))]]]

(* int(x) for x >= 0 *)
Floor(q) == q.num \div q.den

(* f"{x:.0f}": nearest integer, an exact half to the even neighbour *)
RoundHalfEven(q) ==
  LET lo == q.num \div q.den
      r2 == 2 * (q.num % q.den)
  IN  IF r2 < q.den THEN lo
      ELSE IF r2 > q.den THEN lo + 1
      ELSE IF lo % 2 = 0 THEN lo ELSE lo + 1

(* mutant: f"{s}", no padding *)
TwoDigits_Unpadded(s) == ToString(s)

(* f"{s:02d}" for s >= 0 *)
TwoDigits(s) == IF s < 10 THEN "0" \o ToString(s) ELSE ToString(s)

(* f"{int(time_diff/60)}:{int(time_diff%60):02d} minutes" *)
FormatWindow(time_diff) ==
  LET minutes == Floor(RatDiv(time_diff, Rat(60, 1)))
      seconds == Floor(RatSub(time_diff, Rat(60 * minutes, 1)))
  IN  ToString(minutes) \o ":" \o TwoDigits(seconds) \o " minutes"

None == [none |-> TRUE]

(* mutant: 0 <= time_diff < 300 *)
InHorizon_Exclusive(time_diff) ==
  /\ RatLeq(Rat(0, 1), time_diff)
  /\ RatLess(time_diff, Rat(HorizonSeconds, 1))

(* mutant: time_diff <= 300, with no test against 0 *)
InHorizon_NoLowerBound(time_diff) ==
  RatLeq(time_diff, Rat(HorizonSeconds, 1))

InHorizon(time_diff) ==
  /\ RatLeq(Rat(0, 1), time_diff)
  /\ RatLeq(time_diff, Rat(HorizonSeconds, 1))

(* mutant: the comparison is the other way round *)
CronAction_Below(confidence) == IF confidence < 7 THEN "prewarm" ELSE "skip"

CronAction(confidence) == IF confidence > 7 THEN "prewarm" ELSE "skip"

(* mutant: the kind is not looked at *)
BurstyEligible_AnyKind(pattern) ==
  pattern.confidence > 6

(* mutant: the bursty test reuses the 0.7 of the cron action *)
BurstyEligible_Above7(pattern) ==
  pattern.type = "bursty" /\ pattern.confidence > 7

BurstyEligible(pattern) ==
  pattern.type = "bursty" /\ pattern.confidence > 6

_generate_prediction(job_id, pattern, now) ==
  IF pattern.type = "cron" /\ "next_predicted" \in DOMAIN pattern
  THEN LET next_run == pattern.next_predicted
           time_diff == RatSub(next_run, Rat(now, 1000))
       IN  IF InHorizon(time_diff)
           THEN [job_id |-> job_id,
                 predicted_run_time_window |-> FormatWindow(time_diff),
                 confidence_score |-> pattern.confidence,
                 action |-> CronAction(pattern.confidence),
                 reasoning |-> "Cron pattern detected with "
                                 \o ToString(RoundHalfEven(pattern.interval_seconds))
                                 \o "s intervals"]
           ELSE None
  ELSE IF BurstyEligible(pattern)
  THEN [job_id |-> job_id,
        predicted_run_time_window |-> "1-3 minutes",
        confidence_score |-> pattern.confidence,
        action |-> "prewarm",
        reasoning |-> "Burst pattern detected - high activity expected"]
  ELSE None

(* mutant: a Prediction goes before the ones of equal confidence *)
RECURSIVE InsertByConfidence_Unstable(_, _)
InsertByConfidence_Unstable(sorted, p) ==
  IF sorted = <<>> THEN <<p>>
  ELSE IF Head(sorted).confidence_score > p.confidence_score
       THEN <<Head(sorted)>> \o InsertByConfidence_Unstable(Tail(sorted), p)
       ELSE <<p>> \o sorted

(* sorted(predictions, key=confidence_score, reverse=True): stable *)
RECURSIVE InsertByConfidence(_, _)
InsertByConfidence(sorted, p) ==
  IF sorted = <<>> THEN <<p>>
  ELSE IF Head(sorted).confidence_score >= p.confidence_score
       THEN <<Head(sorted)>> \o InsertByConfidence(Tail(sorted), p)
       ELSE <<p>> \o sorted

RECURSIVE SortByConfidence(_)
SortByConfidence(preds) ==
  IF preds = <<>> THEN <<>>
  ELSE InsertByConfidence(SortByConfidence(SubSeq(preds, 1, Len(preds) - 1)),
                          preds[Len(preds)])

(* mutant: "$gt" *)
InWindow_After(e, now) == e.timestamp * 1000 > now - SevenDaysMs

(* {"timestamp": {"$gte": now - 7 days}} *)
InWindow(e, now) == e.timestamp * 1000 >= now - SevenDaysMs

(* db.job_executions.find({"timestamp": {"$gte": now - 7 days}}).to_list(1000) *)
FindRecent(store, now) ==
  LET found == SelectSeq(store, LAMBDA e : InWindow(e, now))
  IN  IF Len(found) > ToListLimit THEN SubSeq(found, 1, ToListLimit) ELSE found

GeneratePredictions(patterns, now) ==
  LET all == [i \in 1..Len(patterns) |->
                _generate_prediction(patterns[i].job_id, patterns[i].pattern, now)]
  IN  SelectSeq(all, LAMBDA p : p # None)

NoAnalysis == [total_jobs |-> 0, patterns |-> <<>>]

(* ------------------------ APIConnectorGenerator ------------------------ *)

(* a dict of the code is the sequence of its items, in insertion order;    *)
(* an item is <<key, value>>                                                *)
Keys(items) == [i \in 1..Len(items) |-> items[i][1]]

(* _create_mock_api_specs: the items of the dict it returns *)
_create_mock_api_specs ==
  << <<"user_management",
       [name |-> "User Management API",
        description |-> "Manage users, authentication, and profiles",
        base_url |-> "https://api.internal.company.com/users",
        endpoints |->
          << [method |-> "POST", path |-> "/users", name |-> "createUser",
              description |-> "Create a new user",
              request_body |-> << <<"email", "string">>, <<"name", "string">>,
                                  <<"role", "string">> >>,
              response |-> << <<"id", "string">>, <<"email", "string">>,
                              <<"name", "string">>, <<"created_at", "datetime">> >>],
             [method |-> "GET", path |-> "/users", name |-> "listUsers",
              description |-> "List all users",
              query_params |-> << <<"limit", "number">>, <<"offset", "number">> >>,
              response |-> << <<"users", "array">>, <<"total", "number">> >>],
             [method |-> "DELETE", path |-> "/users/{id}", name |-> "deleteUser",
              description |-> "Delete a user by ID",
              path_params |-> << <<"id", "string">> >>,
              response |-> << <<"success", "boolean">> >>] >>] >>,
     <<"billing",
       [name |-> "Billing API",
        description |-> "Handle invoicing and billing operations",
        base_url |-> "https://api.internal.company.com/billing",
        endpoints |->
          << [method |-> "POST", path |-> "/invoices", name |-> "createInvoice",
              description |-> "Create a new invoice",
              request_body |-> << <<"customer_id", "string">>, <<"amount", "number">>,
                                  <<"items", "array">> >>,
              response |-> << <<"invoice_id", "string">>, <<"amount", "number">>,
                              <<"status", "string">> >>],
             [method |-> "GET", path |-> "/balance/{customer_id}", name |-> "getBalance",
              description |-> "Get customer balance",
              path_params |-> << <<"customer_id", "string">> >>,
              response |-> << <<"balance", "number">>, <<"currency", "string">> >>] >>] >>,
     <<"monitoring",
       [name |-> "Monitoring API",
        description |-> "System monitoring and health checks",
        base_url |-> "https://api.internal.company.com/monitoring",
        endpoints |->
          << [method |-> "GET", path |-> "/health", name |-> "getServiceHealth",
              description |-> "Get service health status",
              response |-> << <<"status", "string">>, <<"services", "array">>,
                              <<"timestamp", "datetime">> >>],
             [method |-> "GET", path |-> "/errors", name |-> "listErrors",
              description |-> "List recent errors",
              query_params |-> << <<"since", "datetime">>, <<"severity", "string">> >>,
              response |-> << <<"errors", "array">>, <<"count", "number">> >>] >>] >>,
     <<"crm",
       [name |-> "CRM API",
        description |-> "Customer relationship management",
        base_url |-> "https://api.internal.company.com/crm",
        endpoints |->
          << [method |-> "POST", path |-> "/leads", name |-> "createLead",
              description |-> "Create a new lead",
              request_body |-> << <<"name", "string">>, <<"email", "string">>,
                                  <<"company", "string">>, <<"source", "string">> >>,
              response |-> << <<"lead_id", "string">>, <<"status", "string">>,
                              <<"created_at", "datetime">> >>],
             [method |-> "PUT", path |-> "/contacts/{id}", name |-> "updateContact",
              description |-> "Update contact information",
              path_params |-> << <<"id", "string">> >>,
              request_body |-> << <<"name", "string">>, <<"email", "string">>,
                                  <<"phone", "string">> >>,
              response |-> << <<"contact", "object">>, <<"updated_at", "datetime">> >>] >>] >> >>

(* self.mock_apis, set by the constructor and never assigned again *)
mock_apis == _create_mock_api_specs

(* api_name in self.mock_apis *)
InMockApis(api_name) == \E i \in 1..Len(mock_apis) : mock_apis[i][1] = api_name

(* self.mock_apis[api_name] *)
MockApi(api_name) ==
  mock_apis[CHOOSE i \in 1..Len(mock_apis) : mock_apis[i][1] = api_name][2]

(* The generated texts are held by what the templates are filled with: a  *)
(* text is a record of the values its f-string interpolates, and a chain   *)
(* of str.replace calls is the string with the replacements, in order.     *)
Replaced(s, replacements) == [of |-> s, replace |-> replacements]

(* api_spec["name"].replace(" ", "").replace("API", "Client") *)
ClassName(api_spec) == Replaced(api_spec.name, << <<" ", "">>, <<"API", "Client">> >>)

(* api_spec["name"].lower().replace(" ", "_") *)
ModuleName(api_spec) == Replaced([lower |-> api_spec.name], << <<" ", "_">> >>)

(* a result of a call: a value returned, or an exception raised *)
Raised(message) == [raised |-> TRUE, message |-> message]

Returned(value) == [raised |-> FALSE, value |-> value]

(* the HTTPException constructor takes the keywords status_code, detail and *)
(* headers; any other keyword makes the call itself raise a TypeError       *)
HTTPException(kwargs) ==
  IF DOMAIN kwargs \subseteq {"status_code", "detail", "headers"}
  THEN [raised |-> TRUE, class |-> "HTTPException",
        status_code |-> kwargs.status_code,
        detail |-> IF "detail" \in DOMAIN kwargs THEN kwargs.detail ELSE "None"]
  ELSE [raised |-> TRUE, class |-> "TypeError",
        message |-> "__init__() got an unexpected keyword argument '"
                      \o (CHOOSE k \in DOMAIN kwargs :
                            k \notin {"status_code", "detail", "headers"})
                      \o "'"]

_convert_to_ts_type(python_type) ==
  CASE python_type = "string" -> "string"
    [] python_type = "number" -> "number"
    [] python_type = "boolean" -> "boolean"
    [] python_type = "array" -> "any[]"
    [] python_type = "object" -> "any"
    [] python_type = "datetime" -> "string"
    [] OTHER -> "any"

(* the interface_props of one interface *)
InterfaceProps(items) ==
  [i \in 1..Len(items) |-> <<items[i][1], _convert_to_ts_type(items[i][2])>>]

(* the interfaces one endpoint adds: its request, if it has a body, then   *)
(* its response                                                            *)
EndpointInterfaces(endpoint) ==
  (IF "request_body" \in DOMAIN endpoint
   THEN <<[interface |-> <<[title |-> endpoint.name], "Request">>,
           props |-> InterfaceProps(endpoint.request_body)]>>
   ELSE <<>>)
  \o <<[interface |-> <<[title |-> endpoint.name], "Response">>,
        props |-> InterfaceProps(endpoint.response)]>>

(* str.lower of an HTTP method *)
LowerMethod(method) ==
  CASE method = "GET" -> "get"
    [] method = "POST" -> "post"
    [] method = "PUT" -> "put"
    [] method = "DELETE" -> "delete"

_generate_method(endpoint) ==
  LET http_method == LowerMethod(endpoint.method)
      path_params == IF "path_params" \in DOMAIN endpoint
                     THEN Keys(endpoint.path_params) ELSE <<>>
      params ==
        [i \in 1..Len(path_params) |-> <<path_params[i], "string">>]
        \o (IF "request_body" \in DOMAIN endpoint
            THEN << <<"data", <<[title |-> endpoint.name], "Request">> >> >>
            ELSE <<>>)
        \o (IF "query_params" \in DOMAIN endpoint /\ endpoint.query_params # <<>>
            THEN << <<"query?", InterfaceProps(endpoint.query_params)>> >>
            ELSE <<>>)
  IN  [method_name |-> endpoint.name,
       params |-> params,
       url |-> Replaced(endpoint.path,
                        [i \in 1..Len(path_params) |->
                           <<"{" \o path_params[i] \o "}", "${" \o path_params[i] \o "}">>]),
       call |-> http_method,
       argument |-> IF http_method = "get" THEN "{ params: query }" ELSE "data"]

RECURSIVE Concat(_)
Concat(seqs) == IF seqs = <<>> THEN <<>> ELSE Head(seqs) \o Concat(Tail(seqs))

_generate_typescript_connector(api_spec) ==
  [class_name |-> ClassName(api_spec),
   interfaces |-> Concat([i \in 1..Len(api_spec.endpoints) |->
                            EndpointInterfaces(api_spec.endpoints[i])]),
   methods |-> [i \in 1..Len(api_spec.endpoints) |->
                  _generate_method(api_spec.endpoints[i])],
   types_module |-> ModuleName(api_spec)]

_generate_config_template(api_spec) ==
  [title |-> api_spec.name,
   variables |-> Replaced([upper |-> api_spec.name], << <<" ", "_">> >>),
   base_url |-> api_spec.base_url,
   class_name |-> ClassName(api_spec),
   client_module |-> ModuleName(api_spec)]

_generate_documentation(api_spec) ==
  [title |-> api_spec.name,
   description |-> api_spec.description,
   class_name |-> ClassName(api_spec),
   client_module |-> ModuleName(api_spec),
   endpoint_docs |-> [i \in 1..Len(api_spec.endpoints) |->
                        [name |-> api_spec.endpoints[i].name,
                         method |-> api_spec.endpoints[i].method,
                         path |-> api_spec.endpoints[i].path,
                         description |-> api_spec.endpoints[i].description]]]

_generate_directory_structure(api_name, api_spec) ==
  LET safe_name == Replaced([lower |-> api_name], << <<" ", "_">> >>)
  IN  [directory |-> <<safe_name, "_connector">>,
       files |-> << <<safe_name, "_client.ts">>, <<safe_name, "_types.ts">>,
                    ".env.template", "README.md", "package.json" >>,
       examples |-> <<"basic_usage.ts", "trigger_dev_integration.ts">>]

(* mutant: the directory structure is left out of the result *)
generate_connector_NoDirectory(api_name) ==
  IF ~InMockApis(api_name)
  THEN HTTPException([status_code |-> 404,
                      message |-> "API '" \o api_name \o "' not found"])
  ELSE LET api_spec == MockApi(api_name)
       IN  Returned([connector_code |-> _generate_typescript_connector(api_spec),
                     config_template |-> _generate_config_template(api_spec),
                     documentation |-> _generate_documentation(api_spec)])

(* APIConnectorGenerator.generate_connector *)
generate_connector(api_name) ==
  IF ~InMockApis(api_name)
  THEN HTTPException([status_code |-> 404,
                      message |-> "API '" \o api_name \o "' not found"])
  ELSE LET api_spec == MockApi(api_name)
       IN  Returned([connector_code |-> _generate_typescript_connector(api_spec),
                     config_template |-> _generate_config_template(api_spec),
                     documentation |-> _generate_documentation(api_spec),
                     directory_structure |->
                       _generate_directory_structure(api_name, api_spec)])

(* ------------------------- mock data generator ------------------------- *)

(* a JobExecution the generator builds *)
MockExecution(job_config, job_time, status) ==
  [job_id |-> job_config.job_id, timestamp |-> job_time, status |-> status,
   job_type |-> job_config.type]

(* day_start.replace(hour=0, minute=0, second=0, microsecond=0) *)
Midnight(day_start) == day_start - (day_start % DaySeconds)

(* the cron branch: job_time from midnight in steps of the interval while  *)
(* job_time < day_start + 1 day                                            *)
CronRuns(job_config, day_start, random) ==
  LET interval == job_config.interval_minutes * 60
      first == Midnight(day_start)
      count == ((day_start + DaySeconds - first - 1) \div interval) + 1
  IN  [k \in 1..count |->
         MockExecution(job_config, first + (k - 1) * interval, random.status)]

(* the on_demand branch: max(0, num_jobs) runs at day_start + 8 hours *)
OnDemandRuns(job_config, day_start, random) ==
  LET num_jobs == IF random.num_jobs < 0 THEN 0 ELSE random.num_jobs
  IN  [k \in 1..num_jobs |->
         MockExecution(job_config, day_start + 8 * 3600, random.status)]

(* the bursty branch: burst_size runs at burst_start = day_start + 9       *)
(* hours, on the days that have a burst                                    *)
BurstyRuns(job_config, day_start, random) ==
  IF random.burst
  THEN [i \in 1..job_config.burst_size |->
          MockExecution(job_config, day_start + 9 * 3600, random.status)]
  ELSE <<>>

RunsOfDay(job_config, day_start, random) ==
  CASE job_config.type = "cron" -> CronRuns(job_config, day_start, random)
    [] job_config.type = "on_demand" -> OnDemandRuns(job_config, day_start, random)
    [] job_config.type = "bursty" -> BurstyRuns(job_config, day_start, random)

(* generate_mock_job_data() at utcnow() = now, drawing random *)
generate_mock_job_data(now, random) ==
  Concat([d \in 1..MockDays |->
            Concat([c \in 1..Len(job_configs) |->
                      RunsOfDay(job_configs[c],
                                (now \div 1000) - (d - 1) * DaySeconds, random)])])

(* ------------------------------ behaviour ------------------------------ *)

(* the call before the last one: its name, its records and its analysis *)
NoCall == [name |-> "none", job_executions |-> <<>>, analysis |-> NoAnalysis]

LastCall == [name |-> last_call, job_executions |-> job_executions, analysis |-> analysis]

(* the callers of the one global predictor; each has the locals of its call *)
Callers == 1..MaxCallers

Idle ==
  [pc |-> "idle", op |-> "none", now |-> NoTime, job_executions |-> <<>>,
   analysis |-> NoAnalysis, result |-> <<>>]

NoRequest == [name |-> "none"]

NoResponse == [status |-> 0]

(* the predictor as constructed, over a store that holds one of stores *)
Start(stores) ==
  /\ db_job_executions \in stores
  /\ job_patterns = <<>>
  /\ cron_patterns = <<>>
  /\ burst_detection = <<>>
  /\ current_time = NoTime
  /\ job_executions = <<>>
  /\ analysis = NoAnalysis
  /\ predictions = <<>>
  /\ last_call = "none"
  /\ previous_call = NoCall
  /\ callers = [c \in Callers |-> Idle]
  /\ request = NoRequest
  /\ response = NoResponse

Init == Start(StoreContents)

(* mutant: the summaries are kept in self.cron_patterns *)
predict_next_jobs_Caching(now) ==
  /\ current_time' = now
  /\ job_executions' = FindRecent(db_job_executions, now)
  /\ IF job_executions' = <<>>
     THEN /\ analysis' = NoAnalysis
          /\ predictions' = <<>>
          /\ cron_patterns' = cron_patterns
     ELSE /\ analysis' = analyze_job_history(job_executions')
          /\ predictions' = SortByConfidence(GeneratePredictions(analysis'.patterns, now))
          /\ cron_patterns' = analysis'.patterns
  /\ last_call' = "predict_next_jobs"
  /\ previous_call' = LastCall
  /\ UNCHANGED <<db_job_executions, job_patterns, burst_detection,
                 callers, request, response>>

(* GET /jobs/predictions: predictor.predict_next_jobs() at utcnow() = now *)
predict_next_jobs(now) ==
  /\ current_time' = now
  /\ job_executions' = FindRecent(db_job_executions, now)
  /\ IF job_executions' = <<>>
     THEN /\ analysis' = NoAnalysis
          /\ predictions' = <<>>
     ELSE /\ analysis' = analyze_job_history(job_executions')
          /\ predictions' = SortByConfidence(GeneratePredictions(analysis'.patterns, now))
  /\ last_call' = "predict_next_jobs"
  /\ previous_call' = LastCall
  /\ UNCHANGED <<db_job_executions, job_patterns, cron_patterns, burst_detection,
                 callers, request, response>>

(* mutant: the groups are collected in self.job_patterns *)
CallAnalyze_SharedGroups(execs) ==
  /\ job_executions' = execs
  /\ job_patterns' = job_patterns \o execs
  /\ analysis' = analyze_job_history(job_patterns')
  /\ last_call' = "analyze_job_history"
  /\ previous_call' = LastCall
  /\ UNCHANGED <<db_job_executions, cron_patterns, burst_detection,
                 current_time, predictions, callers, request, response>>

(* predictor.analyze_job_history(execs), called by itself *)
CallAnalyze(execs) ==
  /\ job_executions' = execs
  /\ analysis' = analyze_job_history(execs)
  /\ last_call' = "analyze_job_history"
  /\ previous_call' = LastCall
  /\ UNCHANGED <<db_job_executions, job_patterns, cron_patterns, burst_detection,
                 current_time, predictions, callers, request, response>>

(* mutant: the argument itself is sorted, job_executions.sort(key=...) *)
ArgumentAfterAnalysis_SortedInPlace(execs) == SortByTimestamp(execs)

(* the caller's list once analyze_job_history has returned: the records    *)
(* are appended to the new lists of jobs_by_id and only those are sorted   *)
ArgumentAfterAnalysis(execs) == execs

(* predictor.analyze_job_history(execs) by a caller that keeps its list;   *)
(* request holds the list as it was handed over                            *)
AnalyzeInOrder(execs) ==
  /\ request' = [name |-> "analyze_job_history", job_executions |-> execs]
  /\ job_executions' = ArgumentAfterAnalysis(execs)
  /\ analysis' = analyze_job_history(execs)
  /\ last_call' = "analyze_job_history"
  /\ previous_call' = LastCall
  /\ UNCHANGED <<db_job_executions, job_patterns, cron_patterns, burst_detection,
                 current_time, predictions, callers, response>>

(* successive requests read the successive instants of times *)
IsNextRefTime(times, now) ==
  /\ now > current_time
  /\ \A u \in times : u > current_time => now <= u

Requests(times) ==
  \E now \in times : IsNextRefTime(times, now) /\ predict_next_jobs(now)

Next == Requests(RefTimes)

Spec == Init /\ [][Next]_vars

InitBurst == Start(BurstStoreContents)

NextBurst == Requests(BurstRefTimes)

SpecBurst == InitBurst /\ [][NextBurst]_vars

InitIrregular == Start(IrregularStoreContents)

NextIrregular == Requests(RefTimes)

SpecIrregular == InitIrregular /\ [][NextIrregular]_vars

InitJobs == Start(JobStoreContents)

NextJobs == Requests(JobRefTimes)

SpecJobs == InitJobs /\ [][NextJobs]_vars

InitCalls == Start(CallStoreContents)

NextCalls ==
  \/ \E execs \in CallInputs : CallAnalyze(execs)
  \/ Requests(CallRefTimes)

SpecCalls == InitCalls /\ [][NextCalls]_vars

(* caller c enters predict_next_jobs at utcnow() = now and awaits the query *)
BeginPredict(c, now) ==
  /\ callers[c].pc = "idle"
  /\ callers' = [callers EXCEPT ![c] = [Idle EXCEPT !.pc = "find",
                                                    !.op = "predict_next_jobs",
                                                    !.now = now]]
  /\ UNCHANGED <<db_job_executions, job_patterns, cron_patterns, burst_detection,
                 current_time, job_executions, analysis, predictions,
                 last_call, previous_call, request, response>>

(* the query of caller c returns; an empty list ends the call *)
FindReturns(c) ==
  /\ callers[c].pc = "find"
  /\ LET found == FindRecent(db_job_executions, callers[c].now)
     IN  callers' = [callers EXCEPT ![c].job_executions = found,
                                   ![c].pc = IF found = <<>> THEN "done" ELSE "analyze"]
  /\ UNCHANGED <<db_job_executions, job_patterns, cron_patterns, burst_detection,
                 current_time, job_executions, analysis, predictions,
                 last_call, previous_call, request, response>>

(* caller c enters analyze_job_history(execs) *)
BeginAnalyze(c, execs) ==
  /\ callers[c].pc = "idle"
  /\ callers' = [callers EXCEPT ![c] = [Idle EXCEPT !.pc = "analyze",
                                                    !.op = "analyze_job_history",
                                                    !.job_executions = execs]]
  /\ UNCHANGED <<db_job_executions, job_patterns, cron_patterns, burst_detection,
                 current_time, job_executions, analysis, predictions,
                 last_call, previous_call, request, response>>

(* mutant: the groups are collected in self.job_patterns *)
Analyze_SharedGroups(c) ==
  /\ callers[c].pc = "analyze"
  /\ job_patterns' = job_patterns \o callers[c].job_executions
  /\ LET a == analyze_job_history(job_patterns')
     IN  callers' = [callers EXCEPT
                       ![c].analysis = a,
                       ![c].result = IF callers[c].op = "analyze_job_history"
                                     THEN a ELSE <<>>,
                       ![c].pc = IF callers[c].op = "analyze_job_history"
                                 THEN "done" ELSE "generate"]
  /\ UNCHANGED <<db_job_executions, cron_patterns, burst_detection,
                 current_time, job_executions, analysis, predictions,
                 last_call, previous_call, request, response>>

(* analyze_job_history runs for caller c, on the records it was given *)
Analyze(c) ==
  /\ callers[c].pc = "analyze"
  /\ LET a == analyze_job_history(callers[c].job_executions)
     IN  callers' = [callers EXCEPT
                       ![c].analysis = a,
                       ![c].result = IF callers[c].op = "analyze_job_history"
                                     THEN a ELSE <<>>,
                       ![c].pc = IF callers[c].op = "analyze_job_history"
                                 THEN "done" ELSE "generate"]
  /\ UNCHANGED <<db_job_executions, job_patterns, cron_patterns, burst_detection,
                 current_time, job_executions, analysis, predictions,
                 last_call, previous_call, request, response>>

(* predict_next_jobs generates, sorts and returns for caller c *)
Generate(c) ==
  /\ callers[c].pc = "generate"
  /\ callers' = [callers EXCEPT
                   ![c].result = SortByConfidence(
                                   GeneratePredictions(callers[c].analysis.patterns,
                                                       callers[c].now)),
                   ![c].pc = "done"]
  /\ UNCHANGED <<db_job_executions, job_patterns, cron_patterns, burst_detection,
                 current_time, job_executions, analysis, predictions,
                 last_call, previous_call, request, response>>

InitConcurrent == Start(CallStoreContents)

NextConcurrent ==
  \E c \in Callers :
    \/ \E now \in CallRefTimes : BeginPredict(c, now)
    \/ FindReturns(c)
    \/ \E execs \in ConcurrentInputs : BeginAnalyze(c, execs)
    \/ Analyze(c)
    \/ Generate(c)

SpecConcurrent == InitConcurrent /\ [][NextConcurrent]_vars

InitLimit == Start(LimitStoreContents)

NextLimit == Requests(LimitRefTimes)

SpecLimit == InitLimit /\ [][NextLimit]_vars

(* ------------------------------ the routes ----------------------------- *)

(* the JobExecution constructor accepts a document that has the required fields *)
WellFormed(doc) == {"job_id", "timestamp", "status", "job_type"} \subseteq DOMAIN doc

AllWellFormed(docs) == \A i \in 1..Len(docs) : WellFormed(docs[i])

(* db.job_executions.find({"timestamp": {"$gte": now - 1 day}}).to_list(1000) *)
FindLastDay(store, now) ==
  LET found == SelectSeq(store, LAMBDA e : e.timestamp * 1000 >= now - OneDayMs)
  IN  IF Len(found) > ToListLimit THEN SubSeq(found, 1, ToListLimit) ELSE found

(* predict_next_jobs at utcnow() = now, up telling whether the store answers *)
PredictOutcome(store, now, up) ==
  IF ~up THEN Raised("storage unavailable")
  ELSE LET found == FindRecent(store, now)
       IN  IF found = <<>> THEN Returned(<<>>)
           ELSE IF ~AllWellFormed(found) THEN Raised("validation error")
           ELSE Returned(SortByConfidence(
                           GeneratePredictions(analyze_job_history(found).patterns, now)))

(* mutant: the exception is swallowed and an empty result returned *)
Failure_Swallowed(prefix, message) == [status |-> 200, body |-> <<>>]

(* raise HTTPException(status_code=500, detail=f"<prefix>{str(e)}") *)
Failure(prefix, message) == [status |-> 500, detail |-> prefix \o message]

Success(body) == [status |-> 200, body |-> body]

Prewarms(preds) == Len(SelectSeq(preds, LAMBDA p : p.action = "prewarm"))

ConfidenceAvg(preds) ==
  IF preds = <<>> THEN Rat(0, 1)
  ELSE Rat(SeqSum([i \in 1..Len(preds) |-> preds[i].confidence_score]),
           10 * Len(preds))

(* GET /jobs/predictions *)
get_job_predictions(now, up) ==
  /\ request' = [name |-> "get_job_predictions", now |-> now, up |-> <<up>>]
  /\ LET outcome == PredictOutcome(db_job_executions, now, up)
     IN  response' = IF outcome.raised
                     THEN Failure("Prediction failed: ", outcome.message)
                     ELSE Success(outcome.value)
  /\ UNCHANGED <<db_job_executions, job_patterns, cron_patterns, burst_detection,
                 current_time, job_executions, analysis, predictions,
                 last_call, previous_call, callers>>

(* GET /jobs/analytics: the handler reads the clock at now, and            *)
(* predict_next_jobs reads it again at now2                                *)
get_job_analytics(now, now2, up, up2) ==
  /\ request' = [name |-> "get_job_analytics", now |-> now, now2 |-> now2,
                 up |-> <<up, up2>>]
  /\ response' =
       IF ~up THEN Failure("Analytics failed: ", "storage unavailable")
       ELSE LET jobs == FindRecent(db_job_executions, now) IN
            IF jobs = <<>>
            THEN Success([message |-> "No job data available. Generate mock data first."])
            ELSE IF ~AllWellFormed(jobs)
            THEN Failure("Analytics failed: ", "validation error")
            ELSE LET analytics == analyze_job_history(jobs)
                     outcome == PredictOutcome(db_job_executions, now2, up2)
                 IN  IF outcome.raised
                     THEN Failure("Analytics failed: ", outcome.message)
                     ELSE Success(
                            [analytics |-> analytics,
                             predictions |-> outcome.value,
                             summary |->
                               [total_jobs_analyzed |-> Len(jobs),
                                unique_job_ids |->
                                  Cardinality({jobs[i].job_id : i \in 1..Len(jobs)}),
                                prediction_confidence_avg |-> ConfidenceAvg(outcome.value),
                                recommended_prewarms |-> Prewarms(outcome.value)]])
  /\ UNCHANGED <<db_job_executions, job_patterns, cron_patterns, burst_detection,
                 current_time, job_executions, analysis, predictions,
                 last_call, previous_call, callers>>

(* what the framework answers when a handler raises: an HTTPException    *)
(* gives its own status and detail                                         *)
HTTPError(exception) == [status |-> exception.status_code, detail |-> exception.detail]

(* try: ... except HTTPException: raise; except Exception as e: raise      *)
(* HTTPException(status_code=500, detail=prefix + str(e))                  *)
Reraise(exception, prefix) ==
  IF exception.class = "HTTPException"
  THEN HTTPError(exception)
  ELSE HTTPError(HTTPException([status_code |-> 500,
                                detail |-> prefix \o exception.message]))

(* len(spec["endpoints"]) of one item of mock_apis *)
EndpointCount(item) == Len(item[2].endpoints)

(* GET /connectors/available-apis *)
get_available_apis ==
  /\ request' = [name |-> "get_available_apis"]
  /\ response' = Success([available_apis |-> Keys(mock_apis),
                          api_specs |->
                            [i \in 1..Len(mock_apis) |->
                               <<mock_apis[i][1],
                                 [name |-> mock_apis[i][2].name,
                                  description |-> mock_apis[i][2].description,
                                  endpoint_count |-> EndpointCount(mock_apis[i])]>>]])
  /\ UNCHANGED <<db_job_executions, job_patterns, cron_patterns, burst_detection,
                 current_time, job_executions, analysis, predictions,
                 last_call, previous_call, callers>>

(* GET /connectors/{api_name}/spec *)
get_api_spec(api_name) ==
  /\ request' = [name |-> "get_api_spec", api_name |-> api_name]
  /\ response' = IF ~InMockApis(api_name)
                 THEN HTTPError(HTTPException(
                        [status_code |-> 404,
                         detail |-> "API '" \o api_name \o "' not found"]))
                 ELSE Success(MockApi(api_name))
  /\ UNCHANGED <<db_job_executions, job_patterns, cron_patterns, burst_detection,
                 current_time, job_executions, analysis, predictions,
                 last_call, previous_call, callers>>

(* POST /connectors/{api_name}/generate: the handler generate_connector of *)
(* the router, which calls the method of the same name                     *)
generate_connector_route(api_name) ==
  /\ request' = [name |-> "generate_connector", api_name |-> api_name]
  /\ LET result == generate_connector(api_name)
     IN  response' = IF result.raised
                     THEN Reraise(result, "Connector generation failed: ")
                     ELSE Success(result.value)
  /\ UNCHANGED <<db_job_executions, job_patterns, cron_patterns, burst_detection,
                 current_time, job_executions, analysis, predictions,
                 last_call, previous_call, callers>>

(* GET /connectors/{api_name}/download *)
download_connector_package(api_name) ==
  /\ request' = [name |-> "download_connector_package", api_name |-> api_name]
  /\ LET result == generate_connector(api_name)
     IN  response' =
           IF result.raised
           THEN Reraise(result, "Package generation failed: ")
           ELSE Success(
                  [package_name |-> api_name \o "_connector",
                   files |->
                     << <<api_name \o "_client.ts", result.value.connector_code>>,
                        <<".env.template", result.value.config_template>>,
                        <<"README.md", result.value.documentation>>,
                        <<"package.json",
                          [name |-> api_name \o "-connector",
                           main |-> api_name \o "_client.ts"]>> >>,
                   directory_structure |-> result.value.directory_structure,
                   installation_commands |-> <<"npm install axios",
                                               "npm install -D typescript @types/node">>])
  /\ UNCHANGED <<db_job_executions, job_patterns, cron_patterns, burst_detection,
                 current_time, job_executions, analysis, predictions,
                 last_call, previous_call, callers>>

(* the connector_generator part of the dashboard *)
ConnectorGenerator ==
  [available_apis |-> Keys(mock_apis),
   total_endpoints |-> SeqSum([i \in 1..Len(mock_apis) |-> Len(mock_apis[i][2].endpoints)]),
   api_categories |-> <<"user_management", "billing", "monitoring", "crm">>]

(* the cold_start_system part of the dashboard *)
ColdStartSystem(analytics, preds, jobs) ==
  [analytics |-> analytics,
   predictions |-> preds,
   recent_jobs |-> Len(jobs),
   active_prewarms |-> Prewarms(preds)]

(* GET /dashboard: the handler reads the clock at now, and                 *)
(* predict_next_jobs reads it again at now2                                *)
get_dashboard_data(now, now2, up, up2) ==
  /\ request' = [name |-> "get_dashboard_data", now |-> now, now2 |-> now2,
                 up |-> <<up, up2>>]
  /\ response' =
       IF ~up THEN Failure("Dashboard data failed: ", "storage unavailable")
       ELSE LET jobs == FindLastDay(db_job_executions, now) IN
            IF jobs = <<>>
            THEN Success([cold_start_system |->
                            ColdStartSystem([message |-> "No job data available"],
                                            <<>>, jobs),
                          connector_generator |-> ConnectorGenerator,
                          timestamp |-> now])
            ELSE IF ~AllWellFormed(jobs)
            THEN Failure("Dashboard data failed: ", "validation error")
            ELSE LET analytics == analyze_job_history(jobs)
                     outcome == PredictOutcome(db_job_executions, now2, up2)
                 IN  IF outcome.raised
                     THEN Failure("Dashboard data failed: ", outcome.message)
                     ELSE Success([cold_start_system |->
                                     ColdStartSystem(analytics, outcome.value, jobs),
                                   connector_generator |-> ConnectorGenerator,
                                   timestamp |-> now])
  /\ UNCHANGED <<db_job_executions, job_patterns, cron_patterns, burst_detection,
                 current_time, job_executions, analysis, predictions,
                 last_call, previous_call, callers>>

(* POST /jobs/generate-mock-data, one step for each await of the handler.  *)
(* Caller c enters generate_and_store_mock_data.                           *)
BeginGenerateMockData(c) ==
  /\ callers[c].pc = "idle"
  /\ callers' = [callers EXCEPT ![c] = [Idle EXCEPT !.pc = "delete_many",
                                                    !.op = "generate_and_store_mock_data"]]
  /\ UNCHANGED <<db_job_executions, job_patterns, cron_patterns, burst_detection,
                 current_time, job_executions, analysis, predictions,
                 last_call, previous_call, request, response>>

(* await db.job_executions.delete_many({}), up telling whether the store   *)
(* answers                                                                 *)
DeleteMany(c, up) ==
  /\ callers[c].pc = "delete_many"
  /\ IF up
     THEN /\ db_job_executions' = <<>>
          /\ callers' = [callers EXCEPT ![c].pc = "insert_many"]
     ELSE /\ db_job_executions' = db_job_executions
          /\ callers' = [callers EXCEPT
                           ![c].result = Failure("Failed to generate mock data: ",
                                                 "storage unavailable"),
                           ![c].pc = "done"]
  /\ UNCHANGED <<job_patterns, cron_patterns, burst_detection,
                 current_time, job_executions, analysis, predictions,
                 last_call, previous_call, request, response>>

(* min and max of the timestamps of a non-empty list *)
MinTimestamp(jobs_data) ==
  CHOOSE t \in {jobs_data[i].timestamp : i \in 1..Len(jobs_data)} :
    \A i \in 1..Len(jobs_data) : t <= jobs_data[i].timestamp

MaxTimestamp(jobs_data) ==
  CHOOSE t \in {jobs_data[i].timestamp : i \in 1..Len(jobs_data)} :
    \A i \in 1..Len(jobs_data) : t >= jobs_data[i].timestamp

(* jobs_data = await generate_mock_job_data() at utcnow() = now, then      *)
(* await db.job_executions.insert_many(jobs_dict) and the return; an empty *)
(* list makes insert_many raise                                            *)
InsertMany(c, now, random, up) ==
  /\ callers[c].pc = "insert_many"
  /\ LET jobs_data == generate_mock_job_data(now, random)
     IN  IF jobs_data = <<>>
         THEN /\ db_job_executions' = db_job_executions
              /\ callers' = [callers EXCEPT
                               ![c].now = now,
                               ![c].result = Failure("Failed to generate mock data: ",
                                                     "documents must be a non-empty list"),
                               ![c].pc = "done"]
         ELSE IF ~up
         THEN /\ db_job_executions' = db_job_executions
              /\ callers' = [callers EXCEPT
                               ![c].now = now,
                               ![c].job_executions = jobs_data,
                               ![c].result = Failure("Failed to generate mock data: ",
                                                     "storage unavailable"),
                               ![c].pc = "done"]
         ELSE /\ db_job_executions' = db_job_executions \o jobs_data
              /\ callers' = [callers EXCEPT
                               ![c].now = now,
                               ![c].job_executions = jobs_data,
                               ![c].result =
                                 Success([total_records |-> Len(jobs_data),
                                          job_types |-> JobTypes(jobs_data),
                                          date_range |->
                                            [start |-> MinTimestamp(jobs_data),
                                             end |-> MaxTimestamp(jobs_data)]]),
                               ![c].pc = "done"]
  /\ UNCHANGED <<job_patterns, cron_patterns, burst_detection,
                 current_time, job_executions, analysis, predictions,
                 last_call, previous_call, request, response>>

InitService == Start(ServiceStoreContents)

NextService ==
  \E now \in ServiceRefTimes : \E up \in BOOLEAN :
    \/ get_job_predictions(now, up)
    \/ \E now2 \in {t \in ServiceRefTimes : t >= now} : \E up2 \in BOOLEAN :
         \/ get_job_analytics(now, now2, up, up2)
         \/ get_dashboard_data(now, now2, up, up2)

SpecService == InitService /\ [][NextService]_vars

InitConnectors == Start(ServiceStoreContents)

NextConnectors ==
  \/ get_available_apis
  \/ \E api_name \in RequestedNames :
       \/ get_api_spec(api_name)
       \/ generate_connector_route(api_name)
       \/ download_connector_package(api_name)
  \/ \E now \in ServiceRefTimes : \E up, up2 \in BOOLEAN :
       get_dashboard_data(now, now, up, up2)

SpecConnectors == InitConnectors /\ [][NextConnectors]_vars

InitMock == Start(MockStoreContents)

NextMock ==
  \E c \in Callers :
    \/ BeginGenerateMockData(c)
    \/ \E up \in BOOLEAN : DeleteMany(c, up)
    \/ \E now \in MockRefTimes : \E random \in MockRandoms : \E up \in BOOLEAN :
         InsertMany(c, now, random, up)
    \/ \E now \in MockRefTimes : BeginPredict(c, now)
    \/ FindReturns(c)
    \/ Analyze(c)
    \/ Generate(c)

SpecMock == InitMock /\ [][NextMock]_vars

InitDashboard == Start(DashboardStoreContents)

NextDashboard ==
  \E now \in DashboardRefTimes : \E up \in BOOLEAN :
    \/ get_job_predictions(now, up)
    \/ \E now2 \in {t \in DashboardRefTimes : t >= now} : \E up2 \in BOOLEAN :
         get_dashboard_data(now, now2, up, up2)

SpecDashboard == InitDashboard /\ [][NextDashboard]_vars

InitOrder == Start(OrderStoreContents)

NextOrder == \E execs \in OrdersOf(db_job_executions) : AnalyzeInOrder(execs)

SpecOrder == InitOrder /\ [][NextOrder]_vars

InitAdvance == Start(AdvanceStoreContents)

NextAdvance == Requests(AdvanceRefTimes)

SpecAdvance == InitAdvance /\ [][NextAdvance]_vars

InitExample == Start(ExampleStoreContents)

NextExample == Requests(ExampleRefTimes)

SpecExample == InitExample /\ [][NextExample]_vars

(* ------------------- the record groups, as the claims see them --------- *)

GroupIdx(j) == {i \in 1..Len(job_executions) : job_executions[i].job_id = j}

(* the timestamps of the group of j in ascending order, repetitions kept:  *)
(* the n-th is the least t with at least n records at or before t          *)
SortedTimes(j) ==
  LET idx == GroupIdx(j)
      times == {job_executions[i].timestamp : i \in idx}
      upto == [t \in times |->
                 Cardinality({i \in idx : job_executions[i].timestamp <= t})]
  IN  [n \in 1..Cardinality(idx) |->
         CHOOSE t \in times :
           /\ upto[t] >= n
           /\ \A u \in times : u < t => upto[u] < n]

Gaps(ts) == [n \in 1..(Len(ts) - 1) |-> ts[n + 1] - ts[n]]

RECURSIVE SqSum(_)
SqSum(xs) == IF xs = <<>> THEN 0 ELSE Head(xs) * Head(xs) + SqSum(Tail(xs))

(* K^2 * variance of the K gaps: K * sum of squares - square of the sum *)
ScaledVariance(gaps) == Len(gaps) * SqSum(gaps) - SeqSum(gaps) * SeqSum(gaps)

(* at least 3 records and std < 0.1 * mean, both sides squared *)
PeriodicCriterion(ts) ==
  /\ Len(ts) >= 3
  /\ 100 * ScaledVariance(Gaps(ts)) < SeqSum(Gaps(ts)) * SeqSum(Gaps(ts))

(* at least 5 records, 3 of them inside [r, r + 600 s] for a record r *)
BurstCriterion(ts) ==
  /\ Len(ts) >= 5
  /\ \E r \in 1..Len(ts) :
       Cardinality({i \in 1..Len(ts) : ts[r] <= ts[i] /\ ts[i] <= ts[r] + 600}) >= 3

EqualGaps(ts) == \A n \in 1..(Len(ts) - 1) : ts[n + 1] - ts[n] = ts[2] - ts[1]

Summaries == {analysis.patterns[i] : i \in 1..Len(analysis.patterns)}

PredictionsFor(j) == {i \in 1..Len(predictions) : predictions[i].job_id = j}

(* ------------------------------- claims -------------------------------- *)

(* C1: a group is classified cron exactly when it has at least 3 records   *)
(* and the population standard deviation of its consecutive gaps is        *)
(* strictly below 0.1 times their mean; the summary then has confidence    *)
(* 0.9, interval_seconds the mean gap and next_predicted the last          *)
(* timestamp plus the mean gap.                                            *)
C1_PeriodicExactly ==
  \A s \in Summaries :
    LET ts == SortedTimes(s.job_id)
        p == s.pattern
        K == Len(ts) - 1
        total == SeqSum(Gaps(ts))
    IN  /\ (p.type = "cron") <=> PeriodicCriterion(ts)
        /\ p.type = "cron" =>
             /\ p.confidence = 9
             /\ p.interval_seconds.num * K = total * p.interval_seconds.den
             /\ p.next_predicted.num * K
                  = (ts[Len(ts)] * K + total) * p.next_predicted.den

C1_Witness ==
  \E s \in Summaries :
    /\ s.pattern.type = "cron"
    /\ ~EqualGaps(SortedTimes(s.job_id))

(* C2: a group of fewer than 2 records is insufficient_data with           *)
(* confidence 0.1 and has no other field.                                  *)
C2_InsufficientData ==
  \A s \in Summaries :
    Cardinality(GroupIdx(s.job_id)) < 2 =>
      /\ s.pattern.type = "insufficient_data"
      /\ s.pattern.confidence = 1
      /\ DOMAIN s.pattern = {"type", "confidence"}

C2_Witness ==
  \E s \in Summaries :
    /\ Cardinality(GroupIdx(s.job_id)) = 1
    /\ Len(job_executions) >= 3
    /\ s.pattern.type = "insufficient_data"

(* C3, as claimed: every group of 3 or more records with all gaps equal,   *)
(* the common gap 0 included, is cron with interval_seconds the gap and    *)
(* next_predicted the last timestamp plus the gap.                         *)
C3_EqualGapsPeriodic ==
  \A s \in Summaries :
    LET ts == SortedTimes(s.job_id)
        p == s.pattern
    IN  (Len(ts) >= 3 /\ EqualGaps(ts)) =>
          /\ p.type = "cron"
          /\ p.interval_seconds = [num |-> ts[2] - ts[1], den |-> 1]
          /\ p.next_predicted = [num |-> ts[Len(ts)] + ts[2] - ts[1], den |-> 1]

(* C3, amended: every group of 3 or more records with all gaps equal to    *)
(* one gap greater than 0 is cron with interval_seconds the gap and        *)
(* next_predicted the last timestamp plus the gap; when all the timestamps *)
(* coincide the group is not cron.                                         *)
C3_EqualPositiveGapsPeriodic ==
  \A s \in Summaries :
    LET ts == SortedTimes(s.job_id)
        p == s.pattern
    IN  (Len(ts) >= 3 /\ EqualGaps(ts)) =>
          IF ts[2] > ts[1]
          THEN /\ p.type = "cron"
               /\ p.interval_seconds = [num |-> ts[2] - ts[1], den |-> 1]
               /\ p.next_predicted = [num |-> ts[Len(ts)] + ts[2] - ts[1], den |-> 1]
          ELSE p.type # "cron"

C3_Witness ==
  \E s \in Summaries :
    LET ts == SortedTimes(s.job_id)
    IN  /\ Len(ts) >= 3
        /\ EqualGaps(ts)
        /\ ts[2] > ts[1]
        /\ s.pattern.type = "cron"

(* C4: a group that fails the periodic test is bursty, with confidence    *)
(* 0.7, exactly when it has at least 5 records and some record r has at    *)
(* least 3 records of the group in [r, r + 600 s], both ends included.     *)
C4_BurstyExactly ==
  \A s \in Summaries :
    LET ts == SortedTimes(s.job_id)
        p == s.pattern
    IN  ~PeriodicCriterion(ts) =>
          /\ (p.type = "bursty") <=> BurstCriterion(ts)
          /\ p.type = "bursty" => p.confidence = 7

(* a bursty group whose only full window ends exactly 600 s after its anchor *)
C4_Witness ==
  \E s \in Summaries :
    LET ts == SortedTimes(s.job_id)
    IN  /\ s.pattern.type = "bursty"
        /\ ~PeriodicCriterion(ts)
        /\ \A r \in 1..Len(ts) :
             Cardinality({i \in 1..Len(ts) : ts[r] <= ts[i] /\ ts[i] < ts[r] + 600}) < 3

(* C5: a group that meets both the periodic and the burst criterion is     *)
(* reported cron, never bursty.                                            *)
C5_PeriodicBeforeBursty ==
  \A s \in Summaries :
    LET ts == SortedTimes(s.job_id)
    IN  (PeriodicCriterion(ts) /\ BurstCriterion(ts)) => s.pattern.type = "cron"

C5_Witness ==
  \E s \in Summaries :
    LET ts == SortedTimes(s.job_id)
    IN  /\ PeriodicCriterion(ts)
        /\ BurstCriterion(ts)
        /\ s.pattern.type = "cron"

(* C6: a group of 2 or more records that is neither periodic nor bursty is *)
(* on_demand with confidence 0.4, avg_interval the mean gap, and           *)
(* variability std / avg when the mean gap is above 0 and 1 when it is 0   *)
(* (the variability is compared by its square).                            *)
C6_IrregularFallback ==
  \A s \in Summaries :
    LET ts == SortedTimes(s.job_id)
        p == s.pattern
        gaps == Gaps(ts)
        total == SeqSum(gaps)
    IN  (Len(ts) >= 2 /\ ~PeriodicCriterion(ts) /\ ~BurstCriterion(ts)) =>
          /\ p.type = "on_demand"
          /\ p.confidence = 4
          /\ p.avg_interval.num * Len(gaps) = total * p.avg_interval.den
          /\ IF total > 0
             THEN p.variability.sqrt_of = Rat(ScaledVariance(gaps), total * total)
             ELSE p.variability.sqrt_of = [num |-> 1, den |-> 1]

(* one analysis with both cases: a mean gap above 0 with unequal gaps, and *)
(* a mean gap of 0                                                         *)
C6_Witness ==
  /\ \E s \in Summaries :
       LET ts == SortedTimes(s.job_id)
       IN  /\ s.pattern.type = "on_demand"
           /\ Len(ts) >= 3
           /\ ~EqualGaps(ts)
  /\ \E s \in Summaries :
       LET ts == SortedTimes(s.job_id)
       IN  /\ s.pattern.type = "on_demand"
           /\ Len(ts) >= 2
           /\ ts[Len(ts)] = ts[1]

(* C7: every non-empty group gets exactly one of the four kinds, with the  *)
(* confidence of that kind: 0.1, 0.9, 0.7 or 0.4, a value in [0, 1].       *)
C7_DefiniteKind ==
  \A s \in Summaries :
    LET p == s.pattern
    IN  /\ Cardinality(GroupIdx(s.job_id)) >= 1
        /\ {"type", "confidence"} \subseteq DOMAIN p
        /\ p.type \in {"insufficient_data", "cron", "bursty", "on_demand"}
        /\ p.confidence \in {1, 9, 7, 4}
        /\ 0 <= p.confidence /\ p.confidence <= 10
        /\ p.confidence = CASE p.type = "insufficient_data" -> 1
                            [] p.type = "cron" -> 9
                            [] p.type = "bursty" -> 7
                            [] OTHER -> 4

(* two groups of different kinds in one analysis, one with a repeated      *)
(* timestamp                                                               *)
C7_Witness ==
  \E s1 \in Summaries : \E s2 \in Summaries :
    LET ts == SortedTimes(s1.job_id)
    IN  /\ s1.pattern.type # s2.pattern.type
        /\ Len(ts) >= 2
        /\ \E n \in 1..(Len(ts) - 1) : ts[n] = ts[n + 1]

(* next_predicted - current_time of a cron summary, in milliseconds times  *)
(* the denominator of next_predicted                                       *)
DeltaMs(p) == 1000 * p.next_predicted.num - current_time * p.next_predicted.den

CronSummaries == {s \in Summaries : s.pattern.type = "cron"}

(* C8: a cron summary gets a Prediction exactly when 0 <= delta <= 300 s,  *)
(* delta = next_predicted - current_time: at delta = 0 and delta = 300 s   *)
(* there is one, at delta = 300.001 s and delta = -0.001 s there is none.  *)
C8_HorizonInclusive ==
  \A s \in CronSummaries :
    LET den == s.pattern.next_predicted.den
        d == DeltaMs(s.pattern)
        emitted == PredictionsFor(s.job_id) # {}
    IN  /\ emitted <=> (0 <= d /\ d <= 300000 * den)
        /\ d = 0 => emitted
        /\ d = 300000 * den => emitted
        /\ d = 300001 * den => ~emitted
        /\ d = -den => ~emitted

C8_Witness ==
  \E s \in CronSummaries :
    /\ DeltaMs(s.pattern) = 300000 * s.pattern.next_predicted.den
    /\ PredictionsFor(s.job_id) # {}

(* C9: a Prediction of a cron summary carries the summary's confidence,    *)
(* has action prewarm if that confidence is above 0.7 and skip otherwise,  *)
(* and shows delta as floor(delta / 60), a colon, and floor(delta mod 60)  *)
(* in two digits; the minutes are in 0..5 and the seconds in 0..59.        *)
C9_CronPrediction ==
  \A s \in CronSummaries : \A i \in PredictionsFor(s.job_id) :
    LET p == s.pattern
        den == p.next_predicted.den
        d == DeltaMs(p)
        minutes == d \div (60000 * den)
        seconds == (d % (60000 * den)) \div (1000 * den)
    IN  /\ predictions[i].confidence_score = p.confidence
        /\ predictions[i].action = (IF p.confidence > 7 THEN "prewarm" ELSE "skip")
        /\ minutes \in 0..5
        /\ seconds \in 0..59
        /\ predictions[i].predicted_run_time_window
             = ToString(minutes) \o ":"
                 \o (IF seconds < 10 THEN "0" ELSE "") \o ToString(seconds)
                 \o " minutes"

(* a cron Prediction whose delta is not a whole number of seconds *)
C9_Witness ==
  \E s \in CronSummaries : \E i \in PredictionsFor(s.job_id) :
    /\ DeltaMs(s.pattern) % (1000 * s.pattern.next_predicted.den) # 0
    /\ predictions[i].action = "prewarm"

(* the group of j is exactly three records at t0, t0 + 900 s, t0 + 1800 s *)
ThreeEvery900(j) ==
  LET ts == SortedTimes(j)
  IN  /\ Len(ts) = 3
      /\ ts[2] = ts[1] + 900
      /\ ts[3] = ts[1] + 1800

Shows100Seconds(j) ==
  \E i \in PredictionsFor(j) :
    /\ predictions[i].action = "prewarm"
    /\ predictions[i].predicted_run_time_window = "1:40 minutes"

(* C10, as claimed: three records every 900 s from t0, predicted at        *)
(* t0 + 2 * 900 + 200 s, give a prewarm Prediction showing 1:40.           *)
C10_At200SecondsAfterLast ==
  \A s \in Summaries :
    (ThreeEvery900(s.job_id)
       /\ current_time = (SortedTimes(s.job_id)[1] + 2 * 900 + 200) * 1000)
      => Shows100Seconds(s.job_id)

(* C10, amended: three records every 900 s from t0, predicted at           *)
(* t0 + 2 * 900 + 800 s (100 s before the next occurrence at t0 + 2700 s), *)
(* give a prewarm Prediction showing 1:40; predicted at t0 + 2 * 900 +     *)
(* 200 s (700 s before it) they give no Prediction.                        *)
C10_At800SecondsAfterLast ==
  \A s \in Summaries :
    ThreeEvery900(s.job_id) =>
      /\ current_time = (SortedTimes(s.job_id)[1] + 2 * 900 + 800) * 1000
           => Shows100Seconds(s.job_id)
      /\ current_time = (SortedTimes(s.job_id)[1] + 2 * 900 + 200) * 1000
           => PredictionsFor(s.job_id) = {}

C10_Witness ==
  \E s \in Summaries :
    /\ ThreeEvery900(s.job_id)
    /\ current_time = (SortedTimes(s.job_id)[1] + 2 * 900 + 800) * 1000
    /\ Shows100Seconds(s.job_id)

(* three records of the ascending ts inside one span of 10 minutes *)
ThreeWithinTenMinutes(ts) ==
  \E i \in 1..(Len(ts) - 2) : ts[i + 2] - ts[i] <= 600

BurstPredictions(j) ==
  {i \in PredictionsFor(j) :
     /\ predictions[i].action = "prewarm"
     /\ predictions[i].confidence_score = 7}

(* C11: a group of at least 5 records that fails the periodic test and has *)
(* 3 records within some 10 minutes is bursty, and it gets one Prediction  *)
(* with action prewarm and confidence 0.7 at every reference time, however *)
(* far from the burst.                                                     *)
C11_BurstyAlwaysPredicted ==
  \A s \in Summaries :
    LET ts == SortedTimes(s.job_id)
    IN  (Len(ts) >= 5 /\ ~PeriodicCriterion(ts) /\ ThreeWithinTenMinutes(ts)) =>
          /\ s.pattern.type = "bursty"
          /\ Cardinality(PredictionsFor(s.job_id)) = 1
          /\ BurstPredictions(s.job_id) = PredictionsFor(s.job_id)

(* a burst predicted 3 days or more after its last record *)
C11_Witness ==
  \E s \in Summaries :
    /\ s.pattern.type = "bursty"
    /\ current_time >= 259200000
    /\ BurstPredictions(s.job_id) # {}

(* confidences from 0.0 to 1.0, in tenths *)
Confidences == 0..10

(* std / avg > 1 for the gaps of ts, both sides squared and scaled *)
VariabilityAboveOne(ts) ==
  ScaledVariance(Gaps(ts)) > SeqSum(Gaps(ts)) * SeqSum(Gaps(ts))

(* C12: a summary of kind insufficient_data or on_demand gets no           *)
(* Prediction, at every reference time and whatever confidence it carries; *)
(* a group of 6 records with std / avg > 1 and no 3 records within 10      *)
(* minutes is on_demand and gets none.                                     *)
C12_NoPredictionForIrregular ==
  \A s \in Summaries :
    LET ts == SortedTimes(s.job_id)
    IN  /\ s.pattern.type \in {"insufficient_data", "on_demand"} =>
              /\ PredictionsFor(s.job_id) = {}
              /\ \A c \in Confidences :
                   _generate_prediction(s.job_id,
                                        [s.pattern EXCEPT !.confidence = c],
                                        current_time) = None
        /\ (Len(ts) = 6 /\ VariabilityAboveOne(ts) /\ ~ThreeWithinTenMinutes(ts)) =>
              /\ s.pattern.type = "on_demand"
              /\ PredictionsFor(s.job_id) = {}

(* the group of 6 records, analysed from an unsorted store *)
C12_Witness ==
  \E s \in Summaries :
    LET ts == SortedTimes(s.job_id)
    IN  /\ Len(ts) = 6
        /\ VariabilityAboveOne(ts)
        /\ ~ThreeWithinTenMinutes(ts)
        /\ s.pattern.type = "on_demand"
        /\ predictions = <<>>
        /\ \E i \in 1..5 : job_executions[i].timestamp > job_executions[i + 1].timestamp

AnalysedJobIds == {job_executions[i].job_id : i \in 1..Len(job_executions)}

(* the eligibility test of the generator, on a summary *)
Eligible(s) ==
  \/ /\ s.pattern.type = "cron"
     /\ 0 <= DeltaMs(s.pattern)
     /\ DeltaMs(s.pattern) <= 300000 * s.pattern.next_predicted.den
  \/ /\ s.pattern.type = "bursty"
     /\ s.pattern.confidence > 6

(* C13: the analysis holds exactly one summary per distinct job_id of the  *)
(* records; the Predictions have pairwise distinct job_ids, all among      *)
(* those; a summary that passes the eligibility test has exactly one       *)
(* Prediction, with its confidence, and one that fails it has none.        *)
C13_OnePredictionPerEligibleSummary ==
  /\ {analysis.patterns[i].job_id : i \in 1..Len(analysis.patterns)} = AnalysedJobIds
  /\ Len(analysis.patterns) = Cardinality(AnalysedJobIds)
  /\ \A i \in 1..Len(predictions) : \A k \in 1..Len(predictions) :
       predictions[i].job_id = predictions[k].job_id => i = k
  /\ \A i \in 1..Len(predictions) : predictions[i].job_id \in AnalysedJobIds
  /\ \A s \in Summaries :
       /\ Cardinality(PredictionsFor(s.job_id)) = (IF Eligible(s) THEN 1 ELSE 0)
       /\ \A i \in PredictionsFor(s.job_id) :
            predictions[i].confidence_score = s.pattern.confidence

(* three jobs whose records lie in turns, two of them predicted and one not *)
C13_Witness ==
  /\ Cardinality(AnalysedJobIds) = 3
  /\ Len(predictions) = 2
  /\ \E i \in 1..(Len(job_executions) - 2) :
       /\ job_executions[i].job_id # job_executions[i + 1].job_id
       /\ job_executions[i].job_id = job_executions[i + 2].job_id

(* the place of the first record of job j among the analysed records *)
FirstRecord(j) ==
  CHOOSE i \in GroupIdx(j) : \A k \in GroupIdx(j) : i <= k

(* C14: no Prediction of the returned list is followed by one of higher    *)
(* confidence, and two Predictions of equal confidence stand in the order  *)
(* in which their jobs first occur among the records, so the same records  *)
(* and reference time always give the same relative order.                 *)
C14_DescendingConfidenceStableTies ==
  \A i \in 1..Len(predictions) : \A k \in 1..Len(predictions) :
    i < k =>
      /\ predictions[i].confidence_score >= predictions[k].confidence_score
      /\ predictions[i].confidence_score = predictions[k].confidence_score
           => FirstRecord(predictions[i].job_id) < FirstRecord(predictions[k].job_id)

(* two Predictions of equal confidence after one of higher confidence      *)
(* whose job occurs last among the records                                 *)
C14_Witness ==
  /\ Len(predictions) = 3
  /\ predictions[1].confidence_score > predictions[2].confidence_score
  /\ predictions[2].confidence_score = predictions[3].confidence_score
  /\ FirstRecord(predictions[1].job_id) > FirstRecord(predictions[3].job_id)

(* C15: two calls of analyze_job_history in succession with the same       *)
(* records return the same analysis: the same summaries, with the same     *)
(* kinds, confidences and fields.                                          *)
C15_AnalyzeTwiceSame ==
  (/\ last_call = "analyze_job_history"
   /\ previous_call.name = "analyze_job_history"
   /\ previous_call.job_executions = job_executions)
    => analysis = previous_call.analysis

(* the second of two calls with the same records of two jobs *)
C15_Witness ==
  /\ last_call = "analyze_job_history"
  /\ previous_call.name = "analyze_job_history"
  /\ previous_call.job_executions = job_executions
  /\ Len(analysis.patterns) = 2

(* no stored record has a timestamp within the 7 days before current_time *)
EmptyWindow ==
  \A i \in 1..Len(db_job_executions) :
    db_job_executions[i].timestamp * 1000 < current_time - 604800000

(* C16: predict_next_jobs over an empty record window returns the empty    *)
(* list, and analyze_job_history of an empty collection returns an         *)
(* analysis with no pattern, 0 jobs and success rate 0.                    *)
C16_EmptyInputs ==
  /\ (last_call = "predict_next_jobs" /\ EmptyWindow) => predictions = <<>>
  /\ (last_call = "analyze_job_history" /\ job_executions = <<>>) =>
       /\ analysis.patterns = <<>>
       /\ analysis.total_jobs = 0
       /\ analysis.success_rate = [num |-> 0, den |-> 1]
       /\ DOMAIN analysis.job_types = {}

(* an empty collection analysed after a prediction over a store whose      *)
(* records are all older than 7 days                                       *)
C16_Witness ==
  /\ last_call = "analyze_job_history"
  /\ job_executions = <<>>
  /\ previous_call.name = "predict_next_jobs"
  /\ db_job_executions # <<>>
  /\ EmptyWindow
  /\ predictions = <<>>

(* C18: after any sequence of analyze_job_history and predict_next_jobs    *)
(* calls, job_patterns, cron_patterns and burst_detection are as empty as  *)
(* the constructor left them.                                              *)
C18_AccumulatorsStayEmpty ==
  /\ job_patterns = <<>>
  /\ cron_patterns = <<>>
  /\ burst_detection = <<>>

(* a prediction that found cron and bursty jobs, made after an analysis *)
C18_Witness ==
  /\ last_call = "predict_next_jobs"
  /\ previous_call.name = "analyze_job_history"
  /\ previous_call.job_executions # <<>>
  /\ Len(predictions) = 2
  /\ cron_patterns = <<>>

(* what the call of caller c returns when it is the only call *)
Alone(c) ==
  IF callers[c].op = "analyze_job_history"
  THEN analyze_job_history(callers[c].job_executions)
  ELSE LET found == FindRecent(db_job_executions, callers[c].now)
       IN  IF found = <<>> THEN <<>>
           ELSE SortByConfidence(
                  GeneratePredictions(analyze_job_history(found).patterns,
                                      callers[c].now))

(* C17: over an unchanging store, however the steps of concurrent          *)
(* analyze_job_history and predict_next_jobs calls on the one predictor    *)
(* interleave, every caller gets the result it would get running alone.    *)
C17_ConcurrentCallersAsAlone ==
  \A c \in Callers :
    callers[c].pc = "done" => callers[c].result = Alone(c)

(* a prediction that returned two Predictions while another caller, which  *)
(* analyses records of the same jobs, is between two of its steps          *)
C17_Witness ==
  \E c \in Callers : \E d \in Callers :
    /\ callers[c].pc = "done"
    /\ callers[c].op = "predict_next_jobs"
    /\ Len(callers[c].result) = 2
    /\ callers[d].pc = "analyze"
    /\ callers[d].op = "analyze_job_history"
    /\ callers[d].job_executions # <<>>

(* the stored records with timestamp >= current_time - 7 days, in the      *)
(* order of the store                                                      *)
StoredInWindow ==
  SelectSeq(db_job_executions,
            LAMBDA e : e.timestamp * 1000 >= current_time - 604800000)

(* C19, as claimed: predict_next_jobs analyses exactly the stored records  *)
(* with timestamp >= reference time - 7 days, however many there are.      *)
C19_WholeWindowAnalysed ==
  last_call = "predict_next_jobs" =>
    /\ job_executions = StoredInWindow
    /\ StoredInWindow # <<>> => analysis.total_jobs = Len(StoredInWindow)

(* C19, amended: predict_next_jobs analyses the first 1000, in the order   *)
(* of the store, of the stored records with timestamp >= reference time -  *)
(* 7 days: all of them when they are at most 1000, and never a record      *)
(* older than 7 days.                                                      *)
C19_First1000OfWindowAnalysed ==
  last_call = "predict_next_jobs" =>
    LET n == IF Len(StoredInWindow) > 1000 THEN 1000 ELSE Len(StoredInWindow)
    IN  /\ job_executions = SubSeq(StoredInWindow, 1, n)
        /\ StoredInWindow # <<>> => analysis.total_jobs = n
        /\ Len(StoredInWindow) <= 1000 => job_executions = StoredInWindow

(* 1001 stored records in the window, of which the last is not analysed *)
C19_Witness ==
  /\ last_call = "predict_next_jobs"
  /\ Len(StoredInWindow) = 1001
  /\ Len(job_executions) = 1000
  /\ analysis.total_jobs = 1000
  /\ job_executions[1000] # StoredInWindow[1001]

(* the stored documents with timestamp >= now - span milliseconds *)
DocumentsSince(now, span) ==
  {db_job_executions[i] : i \in {k \in 1..Len(db_job_executions) :
                                   db_job_executions[k].timestamp * 1000 >= now - span}}

Rejected(docs) == \E doc \in docs : "job_id" \notin DOMAIN doc

(* the documents the handler of the request reads first *)
FirstDocuments ==
  IF request.name = "get_dashboard_data"
  THEN DocumentsSince(request.now, 86400000)
  ELSE DocumentsSince(request.now, 604800000)

(* the handler goes on to predict_next_jobs after its own query *)
SecondQueryReached ==
  /\ request.name \in {"get_job_analytics", "get_dashboard_data"}
  /\ request.up[1]
  /\ FirstDocuments # {}
  /\ ~Rejected(FirstDocuments)

(* the storage does not answer a query of the request, or a document read  *)
(* is rejected                                                             *)
RequestFailed ==
  \/ ~request.up[1]
  \/ Rejected(FirstDocuments)
  \/ /\ SecondQueryReached
     /\ \/ ~request.up[2]
        \/ Rejected(DocumentsSince(request.now2, 604800000))

FailurePrefix ==
  CASE request.name = "get_job_predictions" -> "Prediction failed: "
    [] request.name = "get_job_analytics" -> "Analytics failed: "
    [] OTHER -> "Dashboard data failed: "

(* C20: a predictions, analytics or dashboard request during which the     *)
(* storage query or a computation raises ends in a 500 whose detail names  *)
(* the route's failure and the exception; a request ends in a 200 only     *)
(* when nothing raised, never with partial results.                        *)
C20_FailuresAre500 ==
  request.name # "none" =>
    /\ RequestFailed =>
         /\ response.status = 500
         /\ response.detail \in {FailurePrefix \o "storage unavailable",
                                 FailurePrefix \o "validation error"}
    /\ ~request.up[1] => response.detail = FailurePrefix \o "storage unavailable"
    /\ ~RequestFailed => response.status = 200
    /\ response.status \in {200, 500}

(* an analytics request whose own query and analysis succeed and whose     *)
(* prediction query fails                                                  *)
C20_Witness ==
  /\ request.name = "get_job_analytics"
  /\ SecondQueryReached
  /\ ~request.up[2]
  /\ response.status = 500
  /\ response.detail = "Analytics failed: storage unavailable"

(* the four mock APIs the tests name *)
FourMockApis == {"user_management", "billing", "monitoring", "crm"}

(* the endpoints the source lists for each of them *)
EndpointsListed(api_name) ==
  CASE api_name = "user_management" -> {"createUser", "listUsers", "deleteUser"}
    [] api_name = "billing" -> {"createInvoice", "getBalance"}
    [] api_name = "monitoring" -> {"getServiceHealth", "listErrors"}
    [] api_name = "crm" -> {"createLead", "updateContact"}

(* C21: available-apis lists exactly user_management, billing, monitoring  *)
(* and crm, each with its name, its description and an endpoint_count that *)
(* is the number of its endpoints; generating a connector for any of the   *)
(* four succeeds and returns connector_code, config_template,              *)
(* documentation and directory_structure.                                  *)
C21_FourApisListedAndGenerated ==
  /\ request.name = "get_available_apis" =>
       /\ response.status = 200
       /\ Len(response.body.available_apis) = 4
       /\ {response.body.available_apis[i] : i \in 1..4} = FourMockApis
       /\ {response.body.api_specs[i][1] : i \in 1..Len(response.body.api_specs)}
            = FourMockApis
       /\ Len(response.body.api_specs) = 4
       /\ \A i \in 1..Len(response.body.api_specs) :
            LET api_name == response.body.api_specs[i][1]
                spec == response.body.api_specs[i][2]
            IN  /\ DOMAIN spec = {"name", "description", "endpoint_count"}
                /\ spec.name = MockApi(api_name).name
                /\ spec.description = MockApi(api_name).description
                /\ spec.endpoint_count = Cardinality(EndpointsListed(api_name))
  /\ (request.name = "generate_connector" /\ request.api_name \in FourMockApis) =>
       /\ response.status = 200
       /\ DOMAIN response.body = {"connector_code", "config_template",
                                  "documentation", "directory_structure"}
       /\ {response.body.documentation.endpoint_docs[i].name :
             i \in 1..Len(response.body.documentation.endpoint_docs)}
            = EndpointsListed(request.api_name)

C21_Witness ==
  /\ request.name = "generate_connector"
  /\ request.api_name = "crm"
  /\ response.status = 200
  /\ Len(response.body.connector_code.methods) = 2

(* C24: generating or downloading a connector for a name that is not one   *)
(* of the available mock APIs ends in the 404 not-found outcome that       *)
(* asking for that name's spec ends in.                                    *)
C24_UnknownApiIs404 ==
  (/\ request.name \in {"generate_connector", "download_connector_package"}
   /\ request.api_name \notin FourMockApis)
    => /\ response.status = 404
       /\ response.detail = "API '" \o request.api_name \o "' not found"

(* C22: a generate-mock-data request that succeeds reports total_records   *)
(* above 0, and when it completes the store holds exactly the records it   *)
(* generated, none of the records from before.                             *)
C22_StoreHoldsExactlyNewRecords ==
  [][\A c \in Callers :
       (/\ callers[c].pc = "insert_many"
        /\ callers'[c].pc = "done"
        /\ callers'[c].result.status = 200)
         => /\ callers'[c].result.body.total_records > 0
            /\ db_job_executions' = callers'[c].job_executions]_vars

(* C25: the query of a predictions request never runs between the delete   *)
(* and the insert of a generate-mock-data request, so it finds the whole   *)
(* set from before the regeneration or the whole new set.                  *)
C25_NeverBetweenDeleteAndInsert ==
  [][\A p \in Callers :
       (/\ callers[p].op = "predict_next_jobs"
        /\ callers[p].pc = "find"
        /\ callers'[p].pc # "find")
         => \A g \in Callers : callers[g].pc # "insert_many"]_vars

(* the kind the analysis gives the job of a Prediction *)
KindOf(prediction) ==
  (CHOOSE s \in Summaries : s.job_id = prediction.job_id).pattern.type

(* C23: every Prediction of predict_next_jobs has action prewarm and       *)
(* confidence 0.9 or 0.7, none has action skip, and in the returned list   *)
(* no Prediction of a bursty job stands before one of a periodic job.      *)
C23_PrewarmOnlyPeriodicFirst ==
  /\ \A i \in 1..Len(predictions) :
       /\ predictions[i].action = "prewarm"
       /\ predictions[i].action # "skip"
       /\ predictions[i].confidence_score \in {9, 7}
       /\ KindOf(predictions[i]) \in {"cron", "bursty"}
       /\ predictions[i].confidence_score = 9 <=> KindOf(predictions[i]) = "cron"
  /\ \A i \in 1..Len(predictions) : \A k \in 1..Len(predictions) :
       (KindOf(predictions[i]) = "bursty" /\ KindOf(predictions[k]) = "cron") => k < i

(* a periodic job predicted before two bursty ones whose records come      *)
(* before its own                                                          *)
C23_Witness ==
  /\ Len(predictions) = 3
  /\ KindOf(predictions[1]) = "cron"
  /\ KindOf(predictions[2]) = "bursty"
  /\ KindOf(predictions[3]) = "bursty"
  /\ FirstRecord(predictions[1].job_id) > FirstRecord(predictions[2].job_id)
  /\ predictions[1].action = "prewarm"

(* the jobs that have a pattern entry in the analytics of a response *)
AnalyticsJobIds(analytics) ==
  IF "patterns" \in DOMAIN analytics
  THEN {analytics.patterns[i].job_id : i \in 1..Len(analytics.patterns)}
  ELSE {}

(* the jobs a Prediction is due for at instant now, from the records of    *)
(* the 7 days before it                                                    *)
EligibleJobIds(now) ==
  LET window == FindRecent(db_job_executions, now)
      due == GeneratePredictions(analyze_job_history(window).patterns, now)
  IN  {due[i].job_id : i \in 1..Len(due)}

(* C26: in a dashboard response the analytics and the predictions are of   *)
(* the same records: every job that has a Prediction has a pattern entry   *)
(* in the analytics, and every job the 7-day window makes eligible has a   *)
(* Prediction, also when none of its records is of the last day.           *)
C26_DashboardOneWindow ==
  (/\ request.name = "get_dashboard_data"
   /\ request.now2 = request.now
   /\ response.status = 200) =>
    LET system == response.body.cold_start_system
        predicted == {system.predictions[i].job_id : i \in 1..Len(system.predictions)}
    IN  /\ predicted \subseteq AnalyticsJobIds(system.analytics)
        /\ EligibleJobIds(request.now2) \subseteq predicted

(* C27: over calls whose reference time only advances, a job whose cron    *)
(* summary stays the same has a Prediction exactly on the calls with       *)
(* next_predicted - 300 s <= reference time <= next_predicted; after a     *)
(* call later than next_predicted the next call has none for it while the  *)
(* summary is still the same.                                              *)
C27_PredictedUntilNextRunOnly ==
  [][/\ current_time' >= current_time
     /\ \A s \in CronSummaries' :
          LET den == s.pattern.next_predicted.den
              d == 1000 * s.pattern.next_predicted.num - current_time' * den
              emitted == (PredictionsFor(s.job_id))' # {}
          IN  /\ emitted <=> (0 <= d /\ d <= 300000 * den)
              /\ (/\ s \in CronSummaries
                  /\ current_time * den > 1000 * s.pattern.next_predicted.num)
                   => ~emitted]_vars

(* the fourth call, 800 s after next_predicted, with the summary of the    *)
(* third call, which was 200 s after it; the second call was 100 s before  *)
C27_Witness ==
  /\ current_time = 3500000
  /\ previous_call.name = "predict_next_jobs"
  /\ previous_call.analysis = analysis
  /\ \E s \in CronSummaries :
       /\ s.pattern.next_predicted = Rat(2700, 1)
       /\ PredictionsFor(s.job_id) = {}

(* the summaries of an analysis as a mapping, the way two dicts compare *)
SummariesOf(a) == {a.patterns[i] : i \in 1..Len(a.patterns)}

IsPermutationOf(s, t) == s \in OrdersOf(t)

(* C28: two calls of analyze_job_history on two orders of the same records *)
(* give the same totals and, job by job, the same summaries, and the list  *)
(* the caller handed over is afterwards in the order it was handed over.   *)
C28_OrderOfRecordsIrrelevant ==
  (/\ last_call = "analyze_job_history"
   /\ previous_call.name = "analyze_job_history"
   /\ IsPermutationOf(request.job_executions, previous_call.job_executions))
    => /\ SummariesOf(analysis) = SummariesOf(previous_call.analysis)
       /\ Len(analysis.patterns) = Len(previous_call.analysis.patterns)
       /\ analysis.total_jobs = previous_call.analysis.total_jobs
       /\ analysis.job_types = previous_call.analysis.job_types
       /\ analysis.success_rate = previous_call.analysis.success_rate
       /\ job_executions = request.job_executions

(* the second call has the records of two jobs in another order than the   *)
(* first, out of timestamp order and with the other job first              *)
C28_Witness ==
  /\ last_call = "analyze_job_history"
  /\ previous_call.name = "analyze_job_history"
  /\ request.job_executions # previous_call.job_executions
  /\ IsPermutationOf(request.job_executions, previous_call.job_executions)
  /\ request.job_executions # SortByTimestamp(request.job_executions)
  /\ Len(analysis.patterns) = 2
  /\ analysis.patterns[1].job_id # previous_call.analysis.patterns[1].job_id

====
